---- MODULE Spec2Model ----
(***************************************************************************)
(* A model of the plan/script pipeline of NAS-Desktop-SSH-Operator (jfo):  *)
(* shell quoting, the sandbox check, the plan model with its collision     *)
(* warnings, the undo reconstruction, the analysis-index updater, the Move *)
(* tab with its execution worker, the grouping of media files, the NFO     *)
(* parser, the streaming execution of a script over SSH, the execution of  *)
(* moves and of their undo plan on a filesystem, the plans of the Rename   *)
(* and the Create-directories tab, and the operations read back from a     *)
(* journal record.                                                         *)
(*                                                                         *)
(* Strings of the program are sequences of one-character strings; the      *)
(* control characters, which TLA+ cannot write, carry their ASCII names.   *)
(***************************************************************************)
EXTENDS Integers, Sequences, FiniteSets, TLC

VARIABLES
    \* ---- jfo/core/quoting.py: one call of bash_quote and its decoding
    qArg,        \* the argument of bash_quote
    qOther,      \* a second argument, quoted beside the first
    qLit,        \* what bash_quote(qArg) returned or raised
    qOtherLit,   \* what bash_quote(qOther) returned or raised
    qTokens,     \* shlex.split(qLit, posix=True)
    qpc          \* "arg" | "quoted" | "decoded"

VARIABLES
    \* ---- jfo/core/validators.py: one call of Sandbox.assert_path_allowed
    sbRoots,     \* Sandbox.allowed_roots
    sbPath,      \* the path argument
    sbResult     \* "ok" when the call returns, else the SandboxViolation raised

VARIABLES
    \* ---- jfo/core/plan.py: a Plan and calls of apply_collision_warnings
    plan,        \* the Plan: title, operations, warnings
    planBefore,  \* the Plan as it was when the last call started
    applyCalls   \* calls of apply_collision_warnings made so far

VARIABLES
    \* ---- jfo/core/history.py: one call of build_undo_plan
    executed_ops,    \* the argument executed_ops
    only_mv_rename,  \* the argument only_mv_rename
    undoPlan,        \* the Plan returned
    undoSkipped,     \* the skip messages returned
    upc              \* "args" | "done"

VARIABLES
    \* ---- jfo/infra/sqlite_index.py, index_update.py: the analysis index
    files,       \* the rows of the table "files"
    clock,       \* the timestamp of the last call
    ixCall,      \* the last call: "none" | "scan" | "apply"
    ixPlan,      \* the plan of the last apply_plan_to_index
    ixHint,      \* its roots_hint
    ixBefore,    \* the rows when the last call started
    ixStats,     \* the IndexUpdateStats the last apply returned
    ixRaised     \* whether the last apply raised

VARIABLES
    \* ---- jfo/ui/tabs/tab_move.py and the state it shares with other tabs
    settings_allowed_roots,  \* app.settings.allowed_roots
    dry_run,         \* the dry-run checkbox of the tab
    _plan,           \* MoveTab._plan
    _script,         \* MoveTab._script
    connected,       \* app.ssh.is_connected()
    workers,         \* the threads of _worker_exec, in the order started
    journal          \* the lines of the journal file

VARIABLES
    \* ---- jfo/core/media_grouping.py: one call of group_media_files
    mgPaths,     \* the argument paths
    mgGroups,    \* the list of MediaGroup returned
    mgpc         \* "args" | "done"

VARIABLES
    \* ---- jfo/core/nfo.py: one call of parse_nfo
    nfRoot,      \* the children of the root element of the document
    nfImdbid,    \* NfoInfo.imdbid of the result
    nfpc         \* "args" | "done"

VARIABLES
    \* ---- jfo/infra/ssh_client.py: one call of exec_bash_script_streaming
    chan,            \* the paramiko channel: closed, status_event, exit_status, in_buffer
    cancel_event,    \* whether cancel_event is set
    shRemote,        \* per stream, what the script wrote and has not arrived yet
    shWritten,       \* per stream, everything the script writes before it exits
    pump,            \* per stream, the thread of _pump: its position and its buf
    shLines,         \* per stream, the lines passed to on_stdout / on_stderr
    shpc,            \* the calling thread: "call" | "wait" | "join_out" | "join_err" | "returned"
    shResult         \* the status returned, in a sequence that is empty before the return

VARIABLES
    \* ---- the remote filesystem on which executed moves are undone
    rfs,         \* the files and directories that exist on the host: [path, dir]
    rfsOrig,     \* the filesystem before the first executed move
    rvStep,      \* the operations of the undo plan that have run
    rvFailed     \* whether an operation of the undo plan could not perform its move

VARIABLES
    \* ---- RenameTab / CreateDirsTab: the loaded groups and the dialogs of the last _execute
    _groups,
    shown

VARIABLES
    \* ---- history.ops_from_journal: a journal record, the lines its script was written from, and the operations read back
    rec,
    recLines,
    jrOps,
    jrpc

qvars == <<qArg, qOther, qLit, qOtherLit, qTokens, qpc>>
sbvars == <<sbRoots, sbPath, sbResult>>
plvars == <<plan, planBefore, applyCalls>>
unvars == <<executed_ops, only_mv_rename, undoPlan, undoSkipped, upc>>
ixvars == <<files, clock, ixCall, ixPlan, ixHint, ixBefore, ixStats, ixRaised>>
tabvars == <<settings_allowed_roots, dry_run, _plan, _script,
             connected, workers, journal>>

mgvars == <<mgPaths, mgGroups, mgpc>>
nfvars == <<nfRoot, nfImdbid, nfpc>>
shvars == <<chan, cancel_event, shRemote, shWritten, pump, shLines, shpc, shResult>>
rvvars == <<rfs, rfsOrig, rvStep, rvFailed>>
rnvars == <<_groups, shown>>
jrvars == <<rec, recLines, jrOps, jrpc>>
vars == <<qvars, sbvars, plvars, unvars, ixvars, tabvars, mgvars, nfvars, shvars, rvvars, rnvars, jrvars>>

-----------------------------------------------------------------------------
(* Generic helpers on sequences.                                           *)

Range(s) == {s[i] : i \in 1..Len(s)}

\* All sequences over S of length 0..n.
SeqsUpTo(S, n) == UNION {[1..k -> S] : k \in 0..n}

RECURSIVE Reverse(_)
Reverse(s) == IF s = <<>> THEN <<>> ELSE Append(Reverse(Tail(s)), Head(s))

\* s[i..] (1-based), empty when i > Len(s)
Drop(s, n) == SubSeq(s, n + 1, Len(s))
Take(s, n) == SubSeq(s, 1, n)

\* str.startswith
StartsWith(s, p) == Len(p) <= Len(s) /\ Take(s, Len(p)) = p
\* str.endswith
EndsWith(s, p) == Len(p) <= Len(s) /\ Drop(s, Len(s) - Len(p)) = p

-----------------------------------------------------------------------------
(* Characters. Ord is the code point of a character of the model.          *)

Ord(c) ==
    CASE c = "NUL" -> 0   [] c = "BEL" -> 7   [] c = "TAB" -> 9
      [] c = "LF"  -> 10  [] c = "VT"  -> 11  [] c = "CR"  -> 13
      [] c = "ESC" -> 27  [] c = "US"  -> 31  [] c = " "   -> 32
      [] c = "\"" -> 34   [] c = "#"   -> 35  [] c = "%"   -> 37
      [] c = "'"   -> 39  [] c = "."   -> 46  [] c = "/"   -> 47
      [] c = "A"   -> 65  [] c = "B"   -> 66  [] c = "X"   -> 88
      [] c = "\\"  -> 92  [] c = "_"   -> 95  [] c = "a"   -> 97
      [] c = "b"   -> 98  [] c = "e"   -> 101 [] c = "f"   -> 102
      [] c = "i"   -> 105 [] c = "k"   -> 107 [] c = "m"   -> 109
      [] c = "n"   -> 110 [] c = "o"   -> 111
      [] c = "t"   -> 116 [] c = "v"   -> 118
      [] c = "x"   -> 120 [] c = "y"   -> 121 [] c = "DEL" -> 127

-----------------------------------------------------------------------------
(* jfo/core/quoting.py                                                     *)

\* _CONTROL_RE = [\x00-\x08\x0b\x0c\x0e-\x1f\x7f]
_CONTROL_RE == (0..8) \cup {11, 12} \cup (14..31) \cup {127}

QuoteError == <<"QuoteError">>

\* assert_safe_text: TRUE when it returns, FALSE when it raises QuoteError
assert_safe_text(value) ==
    /\ "NUL" \notin Range(value)
    /\ \A i \in 1..Len(value) : Ord(value[i]) \notin _CONTROL_RE

\* str.replace("'", "'\"'\"'")
RECURSIVE ReplaceQuotes(_)
ReplaceQuotes(s) ==
    IF s = <<>> THEN <<>>
    ELSE (IF Head(s) = "'" THEN <<"'", "\"", "'", "\"", "'">> ELSE <<Head(s)>>)
         \o ReplaceQuotes(Tail(s))

\* a bash_quote that wraps without escaping embedded single quotes
bash_quote_noescape(arg) ==
    IF ~assert_safe_text(arg) THEN QuoteError
    ELSE <<"'">> \o arg \o <<"'">>

bash_quote(arg) ==
    IF ~assert_safe_text(arg) THEN QuoteError
    ELSE IF arg = <<>> THEN <<"'", "'">>
    ELSE <<"'">> \o ReplaceQuotes(arg) \o <<"'">>

-----------------------------------------------------------------------------
(* shlex.split(line, posix=True), the shell-token parser the history       *)
(* module decodes generated literals with. The scanner is shlex.read_token *)
(* with whitespace_split on and no comment characters.                     *)

ShlexError == <<<<"ValueError">>>>
ShlexWhitespace == {" ", "TAB", "CR", "LF"}
ShlexQuotes == {"'", "\""}

\* st: " " between tokens, "a" in a word, a quote character inside quotes,
\* "\\" after a backslash (esc is the state to return to).
RECURSIVE ShlexScan(_, _, _, _, _, _)
ShlexScan(s, st, esc, tok, quoted, out) ==
    IF s = <<>> THEN
        IF st \in ShlexQuotes \/ st = "\\" THEN ShlexError
        ELSE IF tok # <<>> \/ quoted THEN Append(out, tok) ELSE out
    ELSE
        LET c == Head(s)
            r == Tail(s)
        IN
        IF st = " " THEN
            IF c \in ShlexWhitespace THEN
                IF tok # <<>> \/ quoted
                THEN ShlexScan(r, " ", esc, <<>>, FALSE, Append(out, tok))
                ELSE ShlexScan(r, " ", esc, tok, quoted, out)
            ELSE IF c = "\\" THEN ShlexScan(r, "\\", "a", tok, quoted, out)
            ELSE IF c \in ShlexQuotes THEN ShlexScan(r, c, esc, tok, quoted, out)
            ELSE ShlexScan(r, "a", esc, <<c>>, quoted, out)
        ELSE IF st \in ShlexQuotes THEN
            IF c = st THEN ShlexScan(r, "a", esc, tok, TRUE, out)
            ELSE IF c = "\\" /\ st = "\"" THEN ShlexScan(r, "\\", st, tok, TRUE, out)
            ELSE ShlexScan(r, st, esc, Append(tok, c), TRUE, out)
        ELSE IF st = "\\" THEN
            IF esc \in ShlexQuotes /\ c # "\\" /\ c # esc
            THEN ShlexScan(r, esc, esc, tok \o <<"\\", c>>, quoted, out)
            ELSE ShlexScan(r, esc, esc, Append(tok, c), quoted, out)
        ELSE \* st = "a"
            IF c \in ShlexWhitespace THEN
                IF tok # <<>> \/ quoted
                THEN ShlexScan(r, " ", esc, <<>>, FALSE, Append(out, tok))
                ELSE ShlexScan(r, " ", esc, tok, quoted, out)
            ELSE IF c \in ShlexQuotes THEN ShlexScan(r, c, esc, tok, quoted, out)
            ELSE IF c = "\\" THEN ShlexScan(r, "\\", "a", tok, quoted, out)
            ELSE ShlexScan(r, "a", esc, Append(tok, c), quoted, out)

shlex_split(line) == ShlexScan(line, " ", "a", <<>>, FALSE, <<>>)

-----------------------------------------------------------------------------
(* pathlib.PurePosixPath, as far as the program uses it: str() and .parts  *)

\* s.split("/")
RECURSIVE SplitAcc(_, _, _)
SplitAcc(s, cur, out) ==
    IF s = <<>> THEN Append(out, cur)
    ELSE IF Head(s) = "/" THEN SplitAcc(Tail(s), <<>>, Append(out, cur))
    ELSE SplitAcc(Tail(s), Append(cur, Head(s)), out)

SplitSlash(s) == SplitAcc(s, <<>>, <<>>)

\* "/".join(parts)
RECURSIVE JoinSlash(_)
JoinSlash(parts) ==
    IF parts = <<>> THEN <<>>
    ELSE IF Len(parts) = 1 THEN parts[1]
    ELSE parts[1] \o <<"/">> \o JoinSlash(Tail(parts))

\* the root of a POSIX path: "", "/" or (exactly two leading slashes) "//"
PosixRoot(s) ==
    IF s = <<>> \/ Head(s) # "/" THEN <<>>
    ELSE IF Len(s) >= 2 /\ s[2] = "/" /\ (Len(s) = 2 \/ s[3] # "/") THEN <<"/", "/">>
    ELSE <<"/">>

\* the components after the root: empty ones and "." are dropped, ".." stays
PosixNames(s) == SelectSeq(SplitSlash(s), LAMBDA c : c # <<>> /\ c # <<".">>)

\* PurePosixPath(s).parts
PurePosixParts(s) ==
    (IF PosixRoot(s) = <<>> THEN <<>> ELSE <<PosixRoot(s)>>) \o PosixNames(s)

\* str(PurePosixPath(s))
PurePosixStr(s) ==
    IF PosixRoot(s) = <<>> /\ PosixNames(s) = <<>> THEN <<".">>
    ELSE PosixRoot(s) \o JoinSlash(PosixNames(s))

-----------------------------------------------------------------------------
(* jfo/core/validators.py                                                  *)

\* Sandbox.normalized_roots
RECURSIVE normalized_roots(_)
normalized_roots(allowed_roots) ==
    IF allowed_roots = <<>> THEN <<>>
    ELSE
        LET r == Head(allowed_roots)
            rp == PurePosixStr(r)
            rest == normalized_roots(Tail(allowed_roots))
        IN
        IF r = <<>> THEN rest
        ELSE IF ~StartsWith(rp, <<"/">>) THEN rest
        ELSE IF ~EndsWith(rp, <<"/">>) THEN <<rp \o <<"/">>>> \o rest
        ELSE <<rp>> \o rest

\* a sandbox that matches the roots before it looks for '..'
assert_path_allowed_roots_first(allowed_roots, path) ==
    LET p == PurePosixStr(path)
        roots == normalized_roots(allowed_roots)
    IN
    IF ~StartsWith(p, <<"/">>) THEN "absolute"
    ELSE IF roots = <<>> THEN "no_roots"
    ELSE IF \E i \in 1..Len(roots) : StartsWith(p, roots[i]) THEN "ok"
    ELSE IF <<".", ".">> \in Range(PurePosixParts(p)) THEN "traversal"
    ELSE "outside"

\* Sandbox.assert_path_allowed: "ok" when it returns, else which
\* SandboxViolation it raises
assert_path_allowed(allowed_roots, path) ==
    LET p == PurePosixStr(path)
        roots == normalized_roots(allowed_roots)
    IN
    IF ~StartsWith(p, <<"/">>) THEN "absolute"
    ELSE IF <<".", ".">> \in Range(PurePosixParts(p)) THEN "traversal"
    ELSE IF roots = <<>> THEN "no_roots"
    ELSE IF \E i \in 1..Len(roots) : StartsWith(p, roots[i]) THEN "ok"
    ELSE "outside"

-----------------------------------------------------------------------------
(* jfo/core/operations.py and jfo/core/plan.py                             *)
(*                                                                         *)
(* A warning text is the sequence of the messages joined by "; " in it; a  *)
(* message is a record of its fixed wording (msg) and the values it        *)
(* interpolates.                                                           *)

None == <<"None">>

\* OperationKind
MKDIR == "mkdir"
MOVE == "mv"
RENAME == "rename"
LINK == "ln"
COPY == "cp"
OperationKind == {MKDIR, MOVE, RENAME, LINK, COPY}

\* Operation(kind, src, dst, detail, selected, warning)
Operation(kind, src, dst, detail, selected, warning) ==
    [kind |-> kind, src |-> src, dst |-> dst, detail |-> detail,
     selected |-> selected, warning |-> warning]

\* "not x" for an Optional[str]
Falsy(x) == x = None \/ x = <<>>

Message(msg, k, a, b, n) == [msg |-> msg, k |-> k, a |-> a, b |-> b, n |-> n]

\* f"Collision: multiple ops target {dst}"
CollisionMessage(dst) == Message("Collision: multiple ops target", "", dst, None, 0)
\* f"{len(collisions)} destination collision(s) detected inside the plan."
CollisionSummary(n) == Message("destination collision(s) detected inside the plan.", "", None, None, n)

\* Plan(title)
EmptyPlan(title) == [title |-> title, operations |-> <<>>, warnings |-> <<>>]

\* Plan.selected_operations, as the indices of the operations
selected_operations(p) ==
    SelectSeq([i \in 1..Len(p.operations) |-> i], LAMBDA i : p.operations[i].selected)

\* Plan.count_selected
count_selected(p) == Len(selected_operations(p))

\* a collision detection that forgets to look at the selection
detect_collisions_unselected_too(p) ==
    LET idx == [i \in 1..Len(p.operations) |-> i]
        dsts == {p.operations[i].dst : i \in {j \in Range(idx) : ~Falsy(p.operations[j].dst)}}
        by_dst == [d \in dsts |-> SelectSeq(idx, LAMBDA i : p.operations[i].dst = d)]
    IN [d \in {e \in dsts : Len(by_dst[e]) > 1} |-> by_dst[d]]

\* Plan.detect_destination_collisions: dst -> the (indices of the) selected
\* operations with that dst, for every dst that two or more of them share
detect_destination_collisions(p) ==
    LET sel == selected_operations(p)
        dsts == {p.operations[i].dst : i \in {j \in Range(sel) : ~Falsy(p.operations[j].dst)}}
        by_dst == [d \in dsts |-> SelectSeq(sel, LAMBDA i : p.operations[i].dst = d)]
    IN [d \in {e \in dsts : Len(by_dst[e]) > 1} |-> by_dst[d]]

\* Plan.apply_collision_warnings
apply_collision_warnings(p) ==
    LET collisions == detect_destination_collisions(p)
        hit(i) == \E d \in DOMAIN collisions : i \in Range(collisions[d])
    IN [p EXCEPT
          !.operations = [i \in 1..Len(p.operations) |->
              IF hit(i)
              THEN [p.operations[i] EXCEPT
                      !.warning = Append(@, CollisionMessage(p.operations[i].dst))]
              ELSE p.operations[i]],
          !.warnings = IF DOMAIN collisions # {}
                       THEN Append(@, CollisionSummary(Cardinality(DOMAIN collisions)))
                       ELSE @]

\* Plan.add_warning
add_warning(p, msg) ==
    IF msg \in Range(p.warnings) THEN p ELSE [p EXCEPT !.warnings = Append(@, msg)]

\* Plan.extend
extend(p, ops) == [p EXCEPT !.operations = @ \o ops]

-----------------------------------------------------------------------------
(* jfo/core/history.py: build_undo_plan                                    *)

\* op.src or ''
OrEmpty(x) == IF Falsy(x) THEN <<>> ELSE x

\* f"Skip undo for {op.kind.value}: {op.src or ''} -> {op.dst or ''}"
SkipMessage(op) == Message("Skip undo for", op.kind, OrEmpty(op.src), OrEmpty(op.dst), 0)
\* f"Unsupported undo op: {op.kind.value}"
UnsupportedMessage(op) == Message("Unsupported undo op:", op.kind, None, None, 0)

\* ("UNDO " + (op.detail or "")).strip(); a detail is the sequence of its words
UndoDetail(detail) == <<"UNDO">> \o detail

\* the loop body of build_undo_plan over the operations in the order given:
\* st = [undo_ops, skipped]
RECURSIVE UndoLoop(_, _, _)
UndoLoop(ops, only, st) ==
    IF ops = <<>> THEN st
    ELSE
        LET op == Head(ops) IN
        IF op.kind \in {MOVE, RENAME} THEN
            IF Falsy(op.src) \/ Falsy(op.dst) THEN UndoLoop(Tail(ops), only, st)
            ELSE UndoLoop(Tail(ops), only,
                    [st EXCEPT !.undo_ops = Append(@,
                        Operation(MOVE, op.dst, op.src, UndoDetail(op.detail), TRUE, <<>>))])
        ELSE IF op.kind = MKDIR THEN UndoLoop(Tail(ops), only, st)
        ELSE IF only THEN
            UndoLoop(Tail(ops), only, [st EXCEPT !.skipped = Append(@, SkipMessage(op))])
        ELSE
            UndoLoop(Tail(ops), only, [st EXCEPT !.skipped = Append(@, UnsupportedMessage(op))])

\* for m in skipped: plan.add_warning(m)
RECURSIVE AddWarnings(_, _)
AddWarnings(p, msgs) ==
    IF msgs = <<>> THEN p ELSE AddWarnings(add_warning(p, Head(msgs)), Tail(msgs))

\* the plan and the skip messages, from the state the loop ends in
UndoResult(st, title) ==
    [plan |-> AddWarnings(apply_collision_warnings(extend(EmptyPlan(title), st.undo_ops)),
                          st.skipped),
     skipped |-> st.skipped]

\* a build_undo_plan that walks the executed operations first to last
build_undo_plan_forward(ops, title, only) ==
    UndoResult(UndoLoop(ops, only, [undo_ops |-> <<>>, skipped |-> <<>>]), title)

\* build_undo_plan(executed_ops, title=..., only_mv_rename=...)
build_undo_plan(ops, title, only) ==
    UndoResult(UndoLoop(Reverse(ops), only, [undo_ops |-> <<>>, skipped |-> <<>>]), title)

-----------------------------------------------------------------------------
(* jfo/infra/sqlite_index.py and jfo/infra/index_update.py: the analysis   *)
(* index is the table "files", one row per path (path is the PRIMARY KEY). *)
(* A row is [path, dir, name, ext, root, scanned_at].                      *)

\* str.lower() on the letters of the model's alphabets
Lower(c) ==
    CASE c = "A" -> "a" [] c = "B" -> "b" [] c = "X" -> "x"
      [] c = "M" -> "m" [] c = "P" -> "p" [] OTHER -> c

LowerStr(s) == [i \in 1..Len(s) |-> Lower(s[i])]

\* the last position of c in s, 0 when there is none (str.rsplit(c, 1))
LastIndexOf(s, c) ==
    LET I == {i \in 1..Len(s) : s[i] = c}
    IN  IF I = {} THEN 0 ELSE CHOOSE i \in I : \A j \in I : j <= i

\* str.rstrip("/")
RECURSIVE RStripSlash(_)
RStripSlash(s) ==
    IF s # <<>> /\ s[Len(s)] = "/" THEN RStripSlash(Take(s, Len(s) - 1)) ELSE s

\* (dir, name, ext) of a POSIX path string
_split_remote_path(path) ==
    LET i    == LastIndexOf(path, "/")
        d0   == IF i = 0 THEN <<"/">> ELSE Take(path, i - 1)
        name == IF i = 0 THEN path ELSE Drop(path, i)
        d    == IF d0 = <<>> THEN <<"/">> ELSE d0
        ext  == IF "." \in Range(name)
                THEN LowerStr(Drop(name, LastIndexOf(name, ".")))
                ELSE <<>>
    IN  [dir |-> d, name |-> name, ext |-> ext]

_normalize_root_marker(root) ==
    LET r == RStripSlash(PurePosixStr(root))
    IN  IF r # <<>> THEN r ELSE <<"/">>

\* the first marker of roots (a sequence) that contains path, else None
_pick_root_for_path(path, roots) ==
    LET p   == PurePosixStr(path)
        hit(r) == LET rr == _normalize_root_marker(r)
                  IN  p = rr \/ StartsWith(p, rr \o <<"/">>)
        I   == {i \in 1..Len(roots) : hit(roots[i])}
    IN  IF I = {} THEN None
        ELSE roots[CHOOSE i \in I : \A j \in I : i <= j]

\* INSERT ... ON CONFLICT(path) DO UPDATE: the row of that path is replaced
Upsert(rows, path, root, ts) ==
    LET s == _split_remote_path(path)
    IN  {r \in rows : r.path # path}
        \cup {[path |-> path, dir |-> s.dir, name |-> s.name, ext |-> s.ext,
               root |-> root, scanned_at |-> ts]}

\* sqlite_index.upsert_paths: the table after the call
RECURSIVE upsert_paths(_, _, _, _)
upsert_paths(rows, paths, root, ts) ==
    IF paths = <<>> THEN rows
    ELSE upsert_paths(Upsert(rows, Head(paths), root, ts), Tail(paths), root, ts)

\* the BINARY collation: byte-wise order of the strings
RECURSIVE StrLess(_, _)
StrLess(a, b) ==
    IF b = <<>> THEN FALSE
    ELSE IF a = <<>> THEN TRUE
    ELSE IF Head(a) = Head(b) THEN StrLess(Tail(a), Tail(b))
    ELSE Ord(Head(a)) < Ord(Head(b))

RECURSIVE OrderBy(_)
OrderBy(S) ==
    IF S = {} THEN <<>>
    ELSE LET m == CHOOSE x \in S : \A y \in S : x = y \/ StrLess(x, y)
         IN  <<m>> \o OrderBy(S \ {m})

\* SELECT DISTINCT root FROM files ORDER BY root
distinct_roots(rows) == OrderBy({r.root : r \in rows})

\* list.sort(key = len(_normalize_root_marker(x)), reverse = True): stable
RECURSIVE SortLongestFirst(_)
SortLongestFirst(roots) ==
    IF roots = <<>> THEN <<>>
    ELSE LET len(r) == Len(_normalize_root_marker(r))
             m == CHOOSE n \in {len(roots[i]) : i \in 1..Len(roots)} :
                      \A i \in 1..Len(roots) : len(roots[i]) <= n
             Longest(r) == len(r) = m
             Shorter(r) == len(r) # m
         IN  SelectSeq(roots, Longest) \o SortLongestFirst(SelectSeq(roots, Shorter))

RECURSIVE AppendHints(_, _)
AppendHints(roots, hint) ==
    IF hint = <<>> THEN roots
    ELSE IF ~Falsy(Head(hint)) /\ Head(hint) \notin Range(roots)
         THEN AppendHints(Append(roots, Head(hint)), Tail(hint))
         ELSE AppendHints(roots, Tail(hint))

\* the list "roots" of apply_plan_to_index; roots_hint is a sequence, empty
\* for the None and the empty list that the code treats alike
IndexRoots(rows, roots_hint) ==
    SortLongestFirst(AppendHints(distinct_roots(rows), roots_hint))

\* SQLite's LIKE: "%" matches any run, "_" any one character, and ASCII
\* letters match without regard to case
RECURSIVE Like(_, _)
Like(pat, s) ==
    IF pat = <<>> THEN s = <<>>
    ELSE IF Head(pat) = "%"
         THEN Like(Tail(pat), s) \/ (s # <<>> /\ Like(pat, Tail(s)))
    ELSE IF s = <<>> THEN FALSE
    ELSE IF Head(pat) = "_" THEN Like(Tail(pat), Tail(s))
    ELSE Lower(Head(pat)) = Lower(Head(s)) /\ Like(Tail(pat), Tail(s))

\* SQLite's REPLACE(x, y, z): every occurrence of y in x becomes z
RECURSIVE SqlReplace(_, _, _)
SqlReplace(x, y, z) ==
    IF y = <<>> \/ Len(x) < Len(y) THEN x
    ELSE IF StartsWith(x, y) THEN z \o SqlReplace(Drop(x, Len(y)), y, z)
    ELSE <<Head(x)>> \o SqlReplace(Tail(x), y, z)

IndexUpdateStats(i, d, u) == [inserted |-> i, deleted |-> d, updated_prefix |-> u]

\* The UPDATE of the prefix rewrite on the rows that match its WHERE.  The
\* statement aborts when a rewritten path meets the path of another row;
\* when that other row is itself about to be rewritten, the order in which
\* SQLite visits the rows decides (in_order: the other row went first).
UpdatePrefix(st, src_dir, dst_dir, ts, in_order) ==
    LET src_prefix == src_dir \o <<"/">>
        dst_prefix == dst_dir \o <<"/">>
        hit   == {r \in st.rows : Like(src_prefix \o <<"%">>, r.path)}
        kept  == st.rows \ hit
        new(r) == [r EXCEPT
                     !.path = SqlReplace(r.path, src_prefix, dst_prefix),
                     !.dir  = IF r.dir = src_dir THEN dst_dir
                              ELSE SqlReplace(r.dir, src_prefix, dst_prefix),
                     !.scanned_at = ts]
        clash == \/ \E r \in hit, k \in kept : new(r).path = k.path
                 \/ \E r1, r2 \in hit : r1 # r2 /\ new(r1).path = new(r2).path
        passing == \E r1, r2 \in hit : r1 # r2 /\ new(r1).path = r2.path
    IN  IF hit = {} THEN st
        ELSE IF clash \/ (passing /\ ~in_order) THEN [st EXCEPT !.raised = TRUE]
        ELSE [st EXCEPT !.rows = kept \cup {new(r) : r \in hit},
                        !.updated_prefix = @ + Cardinality(hit)]

\* one turn of the loop of apply_plan_to_index over a selected operation
IndexApplyOp(st, op, roots, ts, in_order) ==
    IF op.kind \in {MOVE, RENAME} THEN
        IF Falsy(op.src) \/ Falsy(op.dst) THEN st
        ELSE IF \E r \in st.rows : r.path = op.src THEN
            LET old_root == (CHOOSE r \in st.rows : r.path = op.src).root
                picked   == _pick_root_for_path(op.dst, roots)
                root_for_dst == IF Falsy(picked) THEN old_root ELSE picked
                deleted  == {r \in st.rows : r.path # op.src}
            IN  [st EXCEPT !.rows = Upsert(deleted, op.dst, root_for_dst, ts),
                           !.deleted = @ + 1,
                           !.inserted = @ + 1]
        ELSE
            LET src_dir == RStripSlash(PurePosixStr(op.src))
                dst_dir == RStripSlash(PurePosixStr(op.dst))
            IN  IF src_dir # <<>> /\ dst_dir # <<>> /\ src_dir # dst_dir
                THEN UpdatePrefix(st, src_dir, dst_dir, ts, in_order)
                ELSE st
    ELSE IF op.kind \in {COPY, LINK} THEN
        IF Falsy(op.dst) THEN st
        ELSE
            LET by_dst == _pick_root_for_path(op.dst, roots)
                by_src == IF Falsy(op.src) THEN None
                          ELSE _pick_root_for_path(op.src, roots)
                root_for_dst == IF ~Falsy(by_dst) THEN by_dst
                                ELSE IF ~Falsy(by_src) THEN by_src
                                ELSE <<>>
            IN  [st EXCEPT !.rows = Upsert(st.rows, op.dst, root_for_dst, ts),
                           !.inserted = @ + 1]
    ELSE st

RECURSIVE IndexApplyOps(_, _, _, _, _)
IndexApplyOps(st, ops, roots, ts, in_order) ==
    IF ops = <<>> \/ st.raised THEN st
    ELSE IndexApplyOps(IndexApplyOp(st, Head(ops), roots, ts, in_order),
                       Tail(ops), roots, ts, in_order)

\* the state in which the loop of apply_plan_to_index starts: the table as
\* the transaction finds it after BEGIN, and the zeroed statistics
IndexBegin(rows) ==
    [rows |-> rows, inserted |-> 0, deleted |-> 0, updated_prefix |-> 0,
     raised |-> FALSE]

\* apply_plan_to_index on a connection that commits each statement by
\* itself: what ran before the failing statement stays in the table
apply_plan_to_index_autocommit(p, roots_hint, rows, ts, in_order) ==
    LET roots == IndexRoots(rows, roots_hint)
        Selected(o) == o.selected
        st == IndexApplyOps(IndexBegin(rows),
                  SelectSeq(p.operations, Selected), roots, ts, in_order)
    IN  IF st.raised
        THEN [rows |-> st.rows, stats |-> IndexUpdateStats(0, 0, 0), raised |-> TRUE]
        ELSE [rows |-> st.rows,
              stats |-> IndexUpdateStats(st.inserted, st.deleted, st.updated_prefix),
              raised |-> FALSE]

\* apply_plan_to_index: the table it leaves, the statistics it returns and
\* whether it raised.  The statements run between BEGIN and conn.commit();
\* when one raises, commit is not reached and conn.close() in the finally
\* block drops the open transaction, so the table is the one before the
\* call and no statistics are returned (stats is then all zero)
apply_plan_to_index(p, roots_hint, rows, ts, in_order) ==
    LET roots == IndexRoots(rows, roots_hint)
        Selected(o) == o.selected
        st == IndexApplyOps(IndexBegin(rows),
                  SelectSeq(p.operations, Selected), roots, ts, in_order)
    IN  IF st.raised
        THEN [rows |-> rows, stats |-> IndexUpdateStats(0, 0, 0), raised |-> TRUE]
        ELSE [rows |-> st.rows,
              stats |-> IndexUpdateStats(st.inserted, st.deleted, st.updated_prefix),
              raised |-> FALSE]

-----------------------------------------------------------------------------
(* jfo/core/scriptgen.py: generate_bash_script.  The module is not among   *)
(* the sources; it is modelled from its contract in the design document    *)
(* (section 4.5): one guarded call per selected operation, in plan order,  *)
(* every path through bash_quote, a generation error when allowed_roots is *)
(* empty.  A script is [dry_run, allowed_roots, calls], calls being the    *)
(* lines of the guarded calls; _script = "" is EmptyScript.                *)

EmptyScript == [dry_run |-> FALSE, allowed_roots |-> <<>>, calls |-> <<>>]

\* safe_mkdir, safe_mv (move and rename), safe_ln, safe_cp
SafeVerb(kind) ==
    CASE kind = MKDIR -> <<"s","a","f","e","_","m","k","d","i","r">>
      [] kind \in {MOVE, RENAME} -> <<"s","a","f","e","_","m","v">>
      [] kind = LINK -> <<"s","a","f","e","_","l","n">>
      [] kind = COPY -> <<"s","a","f","e","_","c","p">>

\* the arguments of the guarded call of an operation
ScriptArgs(op) ==
    IF op.kind = MKDIR THEN <<OrEmpty(op.dst)>>
    ELSE <<OrEmpty(op.src), OrEmpty(op.dst)>>

RECURSIVE JoinQuoted(_)
JoinQuoted(args) ==
    IF args = <<>> THEN <<>>
    ELSE <<" ">> \o bash_quote(Head(args)) \o JoinQuoted(Tail(args))

\* the line of one guarded call: the verb and the quoted arguments
GuardedCall(op) == SafeVerb(op.kind) \o JoinQuoted(ScriptArgs(op))

\* [ok, script]: ok is FALSE when the generator raises
generate_bash_script(p, options) ==
    LET Selected(o) == o.selected
        ops == SelectSeq(p.operations, Selected)
        unquotable == \E i \in 1..Len(ops) : \E k \in 1..Len(ScriptArgs(ops[i])) :
                          ~assert_safe_text(ScriptArgs(ops[i])[k])
    IN  IF Len(options.allowed_roots) = 0 \/ unquotable
        THEN [ok |-> FALSE, script |-> EmptyScript]
        ELSE [ok |-> TRUE,
              script |-> [dry_run |-> options.dry_run,
                          allowed_roots |-> options.allowed_roots,
                          calls |-> [i \in 1..Len(ops) |-> GuardedCall(ops[i])]]]

-----------------------------------------------------------------------------
(* jfo/ui/tabs/tab_move.py: the Move tab                                   *)

\* self._plan = None
NoPlan == EmptyPlan("None")

\* SELECT path FROM files WHERE path LIKE ? AND ext IN (...) ORDER BY path
files_under_dir_recursive(rows, dir_path, exts) ==
    OrderBy({r.path : r \in {q \in rows :
                /\ Like(RStripSlash(dir_path) \o <<"/", "%">>, q.path)
                /\ q.ext \in exts}})

\* the Plan that _worker_build_plan hands to _apply, NoPlan when the index
\* holds no file under src
_worker_build_plan(rows, src, dst, exts) ==
    LET paths == files_under_dir_recursive(rows, src, exts)
        src_prefix == RStripSlash(src)
        dst_prefix == RStripSlash(dst)
        Under(p) == StartsWith(p, src_prefix \o <<"/">>)
        kept == SelectSeq(paths, Under)
        dest(p) == PurePosixStr(dst_prefix \o <<"/">> \o Drop(p, Len(src_prefix) + 1))
        ops == [i \in 1..Len(kept) |->
                   Operation(MOVE, kept[i], dest(kept[i]), None, TRUE, None)]
    IN  IF paths = <<>> THEN NoPlan
        ELSE apply_collision_warnings(extend(EmptyPlan("Move"), ops))

\* MoveTab._regen_script: the _script it leaves, and whether it raised
_regen_script(p, roots, dry, old) ==
    IF p = NoPlan THEN [script |-> old, raised |-> FALSE]
    ELSE LET r == generate_bash_script(p, [allowed_roots |-> roots, dry_run |-> dry])
         IN  IF r.ok THEN [script |-> r.script, raised |-> FALSE]
             ELSE [script |-> old, raised |-> TRUE]

\* the selected operations of a plan, in plan order
SelectedOps(p) == [i \in 1..count_selected(p) |-> p.operations[selected_operations(p)[i]]]

\* a thread running _worker_exec that has not yet made a step
NewWorker == [pc |-> "spawned", sent |-> EmptyScript, exit_code |-> -1, warned |-> FALSE]

\* apply_plan_to_index when the index database cannot be opened or written
\* (init_db, connect or a statement raises sqlite3.Error): the table stays
\* as it is and the call raises
IndexUnavailable(rows) ==
    [rows |-> rows, stats |-> IndexUpdateStats(0, 0, 0), raised |-> TRUE]

\* the worker after its index update.  When apply_plan_to_index raised, the
\* except clause hands the Tk thread the callback "lambda: ...{exc}" that
\* appends the warning line; exc is unbound when the except clause ends, so
\* the line reaches the log only if the callback runs before that
\* (exc_bound), and else the callback raises NameError.  The worker goes on
\* to its exit line in either case.
AfterIndexUpdate(w, raised, exc_bound) ==
    [w EXCEPT !.pc = "done", !.warned = raised /\ exc_bound]

-----------------------------------------------------------------------------
(* jfo/core/media_grouping.py: group_media_files.  A MediaFile is the      *)
(* record of its path and the properties the code reads from it; a         *)
(* MediaGroup is [directory, base_stem, video, sidecars, nfo] with the     *)
(* files given by their paths (MediaFile compares by path).                *)

\* MediaFile(path) with .dir, .name, .suffix and .stem of PurePosixPath
MediaFile(path) ==
    LET names == PosixNames(path)
        name  == IF names = <<>> THEN <<>> ELSE names[Len(names)]
        up    == IF names = <<>> THEN <<>> ELSE Take(names, Len(names) - 1)
        i     == LastIndexOf(name, ".")
        dotted == 1 < i /\ i < Len(name)
    IN  [path   |-> path,
         dir    |-> IF PosixRoot(path) = <<>> /\ up = <<>> THEN <<".">>
                    ELSE PosixRoot(path) \o JoinSlash(up),
         name   |-> name,
         suffix |-> IF dotted THEN LowerStr(Drop(name, i)) ELSE <<>>,
         stem   |-> IF dotted THEN Take(name, i - 1) ELSE name]

DEFAULT_VIDEO_EXTS == {
    <<"m", "k", "v">>, <<"m", "p", "4">>, <<"a", "v", "i">>, <<"m", "o", "v">> }

DEFAULT_SIDECAR_EXTS == {
    <<"n", "f", "o">>, <<"j", "p", "g">>, <<"j", "p", "e", "g">>, <<"p", "n", "g">>, <<"w", "e", "b", "p">>,
    <<"s", "r", "t">>, <<"a", "s", "s">>, <<"s", "s", "a">>, <<"s", "u", "b">>, <<"i", "d", "x">> }

FOLDER_LEVEL_SIDECAR_NAMES == {
    <<"p", "o", "s", "t", "e", "r", ".", "j", "p", "g">>, <<"p", "o", "s", "t", "e", "r", ".", "j", "p", "e", "g">>,
    <<"p", "o", "s", "t", "e", "r", ".", "p", "n", "g">>, <<"p", "o", "s", "t", "e", "r", ".", "w", "e", "b", "p">>,
    <<"f", "a", "n", "a", "r", "t", ".", "j", "p", "g">>, <<"f", "a", "n", "a", "r", "t", ".", "j", "p", "e", "g">>,
    <<"f", "a", "n", "a", "r", "t", ".", "p", "n", "g">>, <<"b", "a", "c", "k", "d", "r", "o", "p", ".", "j", "p", "g">>,
    <<"b", "a", "c", "k", "d", "r", "o", "p", ".", "j", "p", "e", "g">>, <<"b", "a", "c", "k", "d", "r", "o", "p", ".", "p", "n", "g">>,
    <<"l", "a", "n", "d", "s", "c", "a", "p", "e", ".", "j", "p", "g">>, <<"l", "a", "n", "d", "s", "c", "a", "p", "e", ".", "j", "p", "e", "g">>,
    <<"l", "a", "n", "d", "s", "c", "a", "p", "e", ".", "p", "n", "g">>, <<"b", "a", "n", "n", "e", "r", ".", "j", "p", "g">>,
    <<"b", "a", "n", "n", "e", "r", ".", "j", "p", "e", "g">>, <<"b", "a", "n", "n", "e", "r", ".", "p", "n", "g">>,
    <<"l", "o", "g", "o", ".", "p", "n", "g">>, <<"l", "o", "g", "o", ".", "w", "e", "b", "p">>,
    <<"c", "l", "e", "a", "r", "l", "o", "g", "o", ".", "p", "n", "g">>, <<"c", "l", "e", "a", "r", "l", "o", "g", "o", ".", "w", "e", "b", "p">>,
    <<"c", "l", "e", "a", "r", "a", "r", "t", ".", "p", "n", "g">>, <<"c", "l", "e", "a", "r", "a", "r", "t", ".", "w", "e", "b", "p">>,
    <<"d", "i", "s", "c", ".", "p", "n", "g">>, <<"d", "i", "s", "c", ".", "w", "e", "b", "p">>,
    <<"t", "h", "u", "m", "b", ".", "j", "p", "g">>, <<"t", "h", "u", "m", "b", ".", "j", "p", "e", "g">>,
    <<"t", "h", "u", "m", "b", ".", "p", "n", "g">>, <<"f", "o", "l", "d", "e", "r", ".", "j", "p", "g">>,
    <<"f", "o", "l", "d", "e", "r", ".", "j", "p", "e", "g">>, <<"f", "o", "l", "d", "e", "r", ".", "p", "n", "g">> }

FOLDER_LEVEL_NFO_NAMES == {<<"m", "o", "v", "i", "e", ".", "n", "f", "o">>}

\* sorted(videos, key=lambda x: x.name.lower()): ascending and stable
RECURSIVE SortedByName(_)
SortedByName(fs) ==
    IF fs = <<>> THEN <<>>
    ELSE LET key(f) == LowerStr(f.name)
             least(i) == \A j \in 1..Len(fs) : ~StrLess(key(fs[j]), key(fs[i]))
             k == CHOOSE i \in 1..Len(fs) : least(i) /\ \A j \in 1..(i - 1) : ~least(j)
         IN  <<fs[k]>> \o SortedByName(SubSeq(fs, 1, k - 1) \o SubSeq(fs, k + 1, Len(fs)))

\* the group of the video v among the files of its directory d: the loop
\* over the names that go with the stem of v and, when v is the only entry
\* of videos (single), the loop over the folder-level names
MediaGroupFor(d, dir_files, v, single, sidecar_exts) ==
    LET other(f) == f.path # v.path /\ f.suffix \in sidecar_exts
        isNfo(f) == \/ f.name = v.stem \o <<".", "n", "f", "o">>
                    \/ f.suffix = <<"n", "f", "o">> /\ f.stem = v.stem
        byStem(f) == other(f) /\ \/ isNfo(f)
                                 \/ StartsWith(f.name, v.stem \o <<".">>)
                                 \/ StartsWith(f.name, v.stem \o <<"-">>)
        stemNfo(f) == other(f) /\ isNfo(f)
        folderNfo(f) == /\ other(f)
                        /\ LowerStr(f.name) \in FOLDER_LEVEL_NFO_NAMES
                        /\ f.suffix = <<"n", "f", "o">>
        folder(f) == other(f) /\ \/ folderNfo(f)
                                 \/ LowerStr(f.name) \in FOLDER_LEVEL_SIDECAR_NAMES
        first == SelectSeq(dir_files, byStem)
        fresh(i) == /\ folder(dir_files[i])
                    /\ dir_files[i] \notin Range(first)
                    /\ \A j \in 1..(i - 1) : dir_files[j] # dir_files[i]
        picked == SelectSeq([i \in 1..Len(dir_files) |-> i], fresh)
        second == IF single THEN [k \in 1..Len(picked) |-> dir_files[picked[k]]] ELSE <<>>
        nfos1 == SelectSeq(dir_files, stemNfo)
        nfos2 == SelectSeq(dir_files, folderNfo)
        all == first \o second
    IN  [directory |-> d,
         base_stem |-> v.stem,
         video     |-> v.path,
         sidecars  |-> [k \in 1..Len(all) |-> all[k].path],
         nfo       |-> IF nfos1 # <<>> THEN nfos1[Len(nfos1)].path
                       ELSE IF single /\ nfos2 # <<>> THEN nfos2[1].path
                       ELSE None]

\* the groups of the directories ds, in that order, over the files mfs
RECURSIVE MediaGroupsOf(_, _, _, _)
MediaGroupsOf(ds, mfs, video_exts, sidecar_exts) ==
    IF ds = <<>> THEN <<>>
    ELSE LET d == Head(ds)
             inDir(f) == f.dir = d
             isVideo(f) == f.suffix \in video_exts
             dir_files  == SelectSeq(mfs, inDir)
             videos == SelectSeq(dir_files, isVideo)
             sorted == SortedByName(videos)
         IN  [k \in 1..Len(sorted) |->
                 MediaGroupFor(d, dir_files, sorted[k], Len(videos) = 1, sidecar_exts)]
             \o MediaGroupsOf(Tail(ds), mfs, video_exts, sidecar_exts)

\* a grouping that attaches the folder-level names to every video of a
\* directory, however many there are
group_media_files_every_video(ps, video_exts, sidecar_exts) ==
    LET mfs == [i \in 1..Len(ps) |-> MediaFile(ps[i])]
        firstOfDir(i) == \A j \in 1..(i - 1) : mfs[j].dir # mfs[i].dir
        at == SelectSeq([i \in 1..Len(ps) |-> i], firstOfDir)
        gs == MediaGroupsOf([k \in 1..Len(at) |-> mfs[at[k]].dir], mfs,
                            video_exts, sidecar_exts)
    IN  [k \in 1..Len(gs) |->
            LET inDir(f) == f.dir = gs[k].directory
            IN  MediaGroupFor(gs[k].directory, SelectSeq(mfs, inDir),
                              MediaFile(gs[k].video), TRUE, sidecar_exts)]

\* group_media_files(paths, video_exts=..., sidecar_exts=...): by_dir keeps
\* the directories in the order of their first path
group_media_files(ps, video_exts, sidecar_exts) ==
    LET mfs == [i \in 1..Len(ps) |-> MediaFile(ps[i])]
        firstOfDir(i) == \A j \in 1..(i - 1) : mfs[j].dir # mfs[i].dir
        at == SelectSeq([i \in 1..Len(ps) |-> i], firstOfDir)
    IN  MediaGroupsOf([k \in 1..Len(at) |-> mfs[at[k]].dir], mfs,
                      video_exts, sidecar_exts)

-----------------------------------------------------------------------------
(* jfo/core/nfo.py: parse_nfo, the imdbid of its result.  The document is  *)
(* given as ElementTree hands it over: the children of the root element,   *)
(* in document order, each [tag, text] with text = None for an element     *)
(* without text.                                                           *)

Digits == {"0", "1", "2", "3", "4", "5", "6", "7", "8", "9"}

\* str.strip()
RECURSIVE Strip(_)
Strip(s) ==
    IF s # <<>> /\ Head(s) \in ShlexWhitespace THEN Strip(Tail(s))
    ELSE IF s # <<>> /\ s[Len(s)] \in ShlexWhitespace THEN Strip(Take(s, Len(s) - 1))
    ELSE s

\* _text(root, tag): the stripped text of the first child with that tag,
\* None when there is no such child or it has no text or only white space
_text(root, tag) ==
    LET I == {i \in 1..Len(root) : root[i].tag = tag}
        el == root[CHOOSE i \in I : \A j \in I : i <= j]
    IN  IF I = {} THEN None
        ELSE IF el.text = None THEN None
        ELSE IF Strip(el.text) = <<>> THEN None
        ELSE Strip(el.text)

\* the longest run of digits of s that starts at position i, up to n long
RECURSIVE DigitRun(_, _, _)
DigitRun(s, i, n) ==
    IF n = 0 \/ i > Len(s) \/ s[i] \notin Digits THEN 0
    ELSE 1 + DigitRun(s, i + 1, n - 1)

\* _IMDB_RE.search(s), _IMDB_RE = tt\d{3,10}: group(0) of the leftmost
\* match, the quantifier being greedy; None when nothing matches
_IMDB_RE_search(s) ==
    LET at(i) == /\ i + 1 <= Len(s) /\ s[i] = "t" /\ s[i + 1] = "t"
                 /\ DigitRun(s, i + 2, 10) >= 3
        I == {i \in 1..Len(s) : at(i)}
        m == CHOOSE i \in I : \A j \in I : i <= j
    IN  IF I = {} THEN None
        ELSE SubSeq(s, m, m + 1 + DigitRun(s, m + 2, 10))

\* the tags parse_nfo asks for the identifier, in the order of the "or"
ImdbTags == <<<<"i", "m", "d", "b", "i", "d">>,
              <<"i", "m", "d", "b", "_", "i", "d">>,
              <<"i", "m", "d", "b">>,
              <<"i", "d">>,
              <<"u", "n", "i", "q", "u", "e", "i", "d">>>>

\* a parse_nfo that goes on to the next field when a field holds no
\* identifier
RECURSIVE parse_nfo_any_field(_, _)
parse_nfo_any_field(root, tags) ==
    IF tags = <<>> THEN None
    ELSE LET t == _text(root, Head(tags))
         IN  IF t # None /\ _IMDB_RE_search(t) # None THEN _IMDB_RE_search(t)
             ELSE parse_nfo_any_field(root, Tail(tags))

\* parse_nfo(xml_text).imdbid: imdb_raw is the first of the five texts that
\* is not None, and the identifier is searched in it alone
RECURSIVE parse_nfo(_, _)
parse_nfo(root, tags) ==
    IF tags = <<>> THEN None
    ELSE LET t == _text(root, Head(tags))
         IN  IF t # None THEN _IMDB_RE_search(t)
             ELSE parse_nfo(root, Tail(tags))

-----------------------------------------------------------------------------
(* Each specification below runs one component; the variables of the       *)
(* other components rest at these values.                                  *)

NotYet == <<"NotYet">>

QuoteIdle ==
    /\ qArg = <<>> /\ qOther = <<>> /\ qLit = NotYet /\ qOtherLit = NotYet
    /\ qTokens = NotYet /\ qpc = "idle"

SandboxIdle ==
    /\ sbRoots = <<>> /\ sbPath = <<>> /\ sbResult = "idle"

PlanIdle ==
    /\ plan = EmptyPlan("idle") /\ planBefore = EmptyPlan("idle") /\ applyCalls = 0

UndoIdle ==
    /\ executed_ops = <<>> /\ only_mv_rename = TRUE /\ undoPlan = EmptyPlan("idle")
    /\ undoSkipped = <<>> /\ upc = "idle"

IndexIdle ==
    /\ files = {} /\ clock = 0 /\ ixCall = "none"
    /\ ixPlan = EmptyPlan("NotYet") /\ ixHint = <<>> /\ ixBefore = {}
    /\ ixStats = IndexUpdateStats(0, 0, 0) /\ ixRaised = FALSE

TabIdle ==
    /\ settings_allowed_roots = <<>> /\ dry_run = TRUE
    /\ _plan = NoPlan /\ _script = EmptyScript
    /\ connected = FALSE /\ workers = <<>> /\ journal = <<>>

MediaIdle ==
    /\ mgPaths = <<>> /\ mgGroups = <<>> /\ mgpc = "idle"

NfoIdle ==
    /\ nfRoot = <<>> /\ nfImdbid = None /\ nfpc = "idle"

SshIdle ==
    /\ chan = [closed |-> FALSE, status_event |-> FALSE, exit_status |-> -1,
               in_buffer |-> [stdout |-> <<>>, stderr |-> <<>>]]
    /\ cancel_event = FALSE
    /\ shRemote = [stdout |-> <<>>, stderr |-> <<>>]
    /\ shWritten = [stdout |-> <<>>, stderr |-> <<>>]
    /\ pump = [stdout |-> [pc |-> "new", buf |-> <<>>], stderr |-> [pc |-> "new", buf |-> <<>>]]
    /\ shLines = [stdout |-> <<>>, stderr |-> <<>>]
    /\ shpc = "idle"
    /\ shResult = <<>>

ReverseIdle ==
    /\ rfs = {} /\ rfsOrig = {} /\ rvStep = 0 /\ rvFailed = FALSE

RenameIdle ==
    /\ _groups = <<>> /\ shown = {}

JournalIdle ==
    /\ rec = [has_ops |-> FALSE, ops |-> <<>>, script |-> <<>>] /\ recLines = <<>> /\ jrOps = <<>> /\ jrpc = "idle"

-----------------------------------------------------------------------------
(* Specification SpecQuote: bash_quote on every short string and the       *)
(* decoding of the literal it returned.                                    *)

MaxQuoteLen == 3
QuoteAlphabet == {"a", " ", "'", "\"", "\\", "NUL", "TAB", "LF", "DEL"}
OtherPool == {<<>>, <<"a">>, <<"'">>, <<"a", "'">>, <<"'", "a">>, <<"\"">>, <<"TAB">>}

InitQuote ==
    /\ qArg \in SeqsUpTo(QuoteAlphabet, MaxQuoteLen)
    /\ qOther \in OtherPool
    /\ qLit = NotYet
    /\ qOtherLit = NotYet
    /\ qTokens = NotYet
    /\ qpc = "arg"
    /\ SandboxIdle /\ PlanIdle /\ UndoIdle /\ IndexIdle /\ TabIdle /\ MediaIdle /\ NfoIdle /\ SshIdle /\ ReverseIdle /\ RenameIdle /\ JournalIdle

\* the caller quotes its arguments
QuoteCall ==
    /\ qpc = "arg"
    /\ qLit' = bash_quote(qArg)
    /\ qOtherLit' = bash_quote(qOther)
    /\ qpc' = "quoted"
    /\ UNCHANGED <<qArg, qOther, qTokens>>
    /\ UNCHANGED <<sbvars, plvars, unvars, ixvars, tabvars, mgvars, nfvars, shvars, rvvars, rnvars, jrvars>>

\* a shell-token parser reads the literal back
DecodeCall ==
    /\ qpc = "quoted"
    /\ qLit # QuoteError
    /\ qTokens' = shlex_split(qLit)
    /\ qpc' = "decoded"
    /\ UNCHANGED <<qArg, qOther, qLit, qOtherLit>>
    /\ UNCHANGED <<sbvars, plvars, unvars, ixvars, tabvars, mgvars, nfvars, shvars, rvvars, rnvars, jrvars>>

NextQuote == QuoteCall \/ DecodeCall

SpecQuote == InitQuote /\ [][NextQuote]_vars

\* C2: every string bash_quote accepts decodes, with the shell-token parser,
\* to exactly one token equal to the string; the empty string is quoted as
\* two single quotes; two different accepted strings never get one literal.
C2_QuoteRoundTrip ==
    /\ (qpc = "decoded" => qTokens = <<qArg>>)
    /\ (qpc # "arg" /\ qArg = <<>> => qLit = <<"'", "'">>)
    /\ (qpc # "arg" /\ qLit # QuoteError /\ qLit = qOtherLit => qArg = qOther)

\* a string with an embedded single quote was quoted and decoded
C2_Witness ==
    /\ qpc = "decoded"
    /\ Len(qArg) = 3
    /\ qArg[2] = "'"
    /\ qLit = <<"'", qArg[1], "'", "\"", "'", "\"", "'", qArg[3], "'">>

\* C3: bash_quote raises QuoteError for every string that contains NUL or
\* an ASCII control character 0x00-0x1F (none excluded) or 0x7F.
AllControlCodes == (0..31) \cup {127}

C3_RejectsEveryControl ==
    (qpc # "arg" /\ \E i \in 1..Len(qArg) : Ord(qArg[i]) \in AllControlCodes)
        => qLit = QuoteError

-----------------------------------------------------------------------------
(* Specification SpecSandbox: assert_path_allowed on every short path      *)
(* under every root configuration of the pool.                             *)

MaxPathLen == 5
PathAlphabet == {"/", ".", "a"}
RootConfigs == {
    <<>>,
    << <<>> >>,
    << <<"a">> >>,
    << <<"/", "a">> >>,
    << <<"/", "a", "/">> >>,
    << <<"/">> >>,
    << <<"/", "/", "a">> >>,
    << <<"/", "a", "/", "a">>, <<"/", ".", "a">> >>,
    << <<"a">>, <<"/", "a", "/", ".", "/">> >> }

InitSandbox ==
    /\ sbPath \in SeqsUpTo(PathAlphabet, MaxPathLen)
    /\ sbRoots \in RootConfigs
    /\ sbResult = "NotYet"
    /\ QuoteIdle /\ PlanIdle /\ UndoIdle /\ IndexIdle /\ TabIdle /\ MediaIdle /\ NfoIdle /\ SshIdle /\ ReverseIdle /\ RenameIdle /\ JournalIdle

AssertPathAllowed ==
    /\ sbResult = "NotYet"
    /\ sbResult' = assert_path_allowed(sbRoots, sbPath)
    /\ UNCHANGED <<sbRoots, sbPath>>
    /\ UNCHANGED <<qvars, plvars, unvars, ixvars, tabvars, mgvars, nfvars, shvars, rvvars, rnvars, jrvars>>

NextSandbox == AssertPathAllowed

SpecSandbox == InitSandbox /\ [][NextSandbox]_vars

\* the path as the caller wrote it: absolute, and with a ".." component
RawIsAbsolute(path) == path # <<>> /\ path[1] = "/"
RawHasDotDot(path) == <<".", ".">> \in Range(SplitSlash(path))

\* a normalized root: absolute and slash-terminated
IsNormalizedRoot(r) == r # <<>> /\ r[1] = "/" /\ r[Len(r)] = "/"

\* C4: assert_path_allowed accepts a path exactly when it is absolute, has
\* no ".." component and (in normal form) starts with one of the normalized
\* roots, which are absolute and slash-terminated; a path with a ".."
\* component is rejected under every root configuration, the empty one
\* included, by a check that precedes root matching: an absolute one as a
\* traversal (a relative one already as not absolute).
C4_SandboxAccepts ==
    sbResult # "NotYet" /\ sbResult # "idle" =>
        /\ \A i \in 1..Len(normalized_roots(sbRoots)) :
                IsNormalizedRoot(normalized_roots(sbRoots)[i])
        /\ sbResult = "ok" <=>
                /\ RawIsAbsolute(sbPath)
                /\ ~RawHasDotDot(sbPath)
                /\ \E r \in Range(normalized_roots(sbRoots)) :
                        StartsWith(PurePosixStr(sbPath), r)
        /\ RawHasDotDot(sbPath) =>
                sbResult = (IF RawIsAbsolute(sbPath) THEN "traversal" ELSE "absolute")

\* a path with ".." was rejected as a traversal although no root is configured
C4_Witness ==
    /\ sbResult = "traversal"
    /\ sbPath = <<"/", "a", "/", ".", ".">>
    /\ sbRoots = <<>>

\* C30: a path equal to a configured allowed root, with or without a
\* trailing slash on either of them, is accepted: the scan root that the
\* Analysis tab prefills from the first allowed root passes the check.
C30_RootItselfAccepted ==
    sbResult # "NotYet" /\ sbResult # "idle" =>
        \A i \in 1..Len(sbRoots) :
            ( /\ RawIsAbsolute(sbRoots[i]) /\ ~RawHasDotDot(sbRoots[i])
              /\ \/ sbPath = sbRoots[i]
                 \/ sbPath = sbRoots[i] \o <<"/">>
                 \/ sbPath # <<>> /\ sbPath \o <<"/">> = sbRoots[i] )
            => sbResult = "ok"

-----------------------------------------------------------------------------
(* Specification SpecPlan: apply_collision_warnings on every short plan    *)
(* over a pool of operations.                                              *)

MaxPlanOps == 3
MaxApplyCalls == 2

PathX == <<"/", "x">>
PathY == <<"/", "y">>
PathA == <<"/", "a">>
PathB == <<"/", "b">>

\* a warning an operation carries from plan building
EarlierWarning == <<Message("Sandbox", "", None, None, 0)>>

PlanOpPool ==
    {Operation(MOVE, PathA, dst, <<>>, sel, w) :
        dst \in {None, <<>>, PathX, PathY}, sel \in BOOLEAN, w \in {<<>>, EarlierWarning}}

InitPlan ==
    /\ \E ops \in SeqsUpTo(PlanOpPool, MaxPlanOps) : plan = extend(EmptyPlan("t"), ops)
    /\ planBefore = plan
    /\ applyCalls = 0
    /\ QuoteIdle /\ SandboxIdle /\ UndoIdle /\ IndexIdle /\ TabIdle /\ MediaIdle /\ NfoIdle /\ SshIdle /\ ReverseIdle /\ RenameIdle /\ JournalIdle

ApplyCollisionWarnings ==
    /\ applyCalls < MaxApplyCalls
    /\ planBefore' = plan
    /\ plan' = apply_collision_warnings(plan)
    /\ applyCalls' = applyCalls + 1
    /\ UNCHANGED <<qvars, sbvars, unvars, ixvars, tabvars, mgvars, nfvars, shvars, rvvars, rnvars, jrvars>>

NextPlan == ApplyCollisionWarnings

SpecPlan == InitPlan /\ [][NextPlan]_vars

\* operation i of the list shares its non-empty destination with another
\* selected operation, and is selected itself
Collides(ops, i) ==
    /\ ops[i].selected
    /\ ops[i].dst # None /\ ops[i].dst # <<>>
    /\ \E j \in 1..Len(ops) : j # i /\ ops[j].selected /\ ops[j].dst = ops[i].dst

\* C1: after apply_collision_warnings every selected operation that shares
\* a non-empty destination with another selected operation has a non-empty
\* warning (ending in the collision message for its destination) and the
\* plan has got the summary warning; an unselected operation or one without
\* a destination is not counted: it is left as it was, and the summary
\* counts the destinations shared by selected operations only.
C1_CollisionWarnings ==
    applyCalls >= 1 =>
        LET before == planBefore.operations
            after == plan.operations
            shared == {before[i].dst : i \in {j \in 1..Len(before) : Collides(before, j)}}
        IN
        /\ Len(after) = Len(before)
        /\ \A i \in 1..Len(before) :
              IF Collides(before, i)
              THEN /\ after[i].warning # <<>>
                   /\ after[i].warning =
                        Append(before[i].warning, CollisionMessage(before[i].dst))
                   /\ [after[i] EXCEPT !.warning = <<>>] = [before[i] EXCEPT !.warning = <<>>]
              ELSE after[i] = before[i]
        /\ IF shared # {}
           THEN plan.warnings = Append(planBefore.warnings, CollisionSummary(Cardinality(shared)))
           ELSE plan.warnings = planBefore.warnings

\* two selected operations collided and were annotated while an unselected
\* operation with the same destination was left alone
C1_Witness ==
    /\ applyCalls = 1
    /\ Len(plan.operations) = 3
    /\ Collides(planBefore.operations, 1)
    /\ Collides(planBefore.operations, 2)
    /\ ~plan.operations[3].selected
    /\ plan.operations[3].dst = plan.operations[1].dst
    /\ plan.operations[3].warning = <<>>
    /\ plan.operations[1].warning # <<>>
    /\ plan.warnings # <<>>

\* how often msg occurs in a sequence of messages
Occurrences(w, msg) == Cardinality({k \in 1..Len(w) : w[k] = msg})

\* C12: after apply_collision_warnings has been called twice in succession
\* on a plan, no operation's warning holds the collision message twice and
\* the plan's warning list holds the collision summary once.
C12_NoDuplicateOnSecondCall ==
    applyCalls = 2 =>
        /\ \A i \in 1..Len(plan.operations) :
              Occurrences(plan.operations[i].warning,
                          CollisionMessage(plan.operations[i].dst)) <= 1
        /\ \A n \in 1..MaxPlanOps :
              Occurrences(plan.warnings, CollisionSummary(n)) <= 1

-----------------------------------------------------------------------------
(* Specification SpecUndo: build_undo_plan on every short list of executed *)
(* operations over a pool, for both values of only_mv_rename.              *)

MaxExecutedOps == 3

\* the temporary name of a three-step swap
PathT == <<"/", "t">>

Move(src, dst) == Operation(MOVE, src, dst, <<>>, TRUE, <<>>)

\* [move(/a -> /t), move(/b -> /a), move(/t -> /b)]
SwapOps == <<Move(PathA, PathT), Move(PathB, PathA), Move(PathT, PathB)>>

UndoOpPool ==
    Range(SwapOps) \cup
    { Operation(RENAME, PathA, PathB, <<"folder">>, TRUE, <<>>),
      Operation(MOVE, None, PathA, <<>>, TRUE, <<>>),
      Operation(MOVE, PathA, <<>>, <<>>, TRUE, <<>>),
      Operation(RENAME, PathB, None, <<>>, TRUE, <<>>),
      Operation(MKDIR, None, PathA, <<>>, TRUE, <<>>),
      Operation(LINK, PathA, PathB, <<>>, TRUE, <<>>),
      Operation(COPY, PathA, PathB, <<>>, TRUE, <<>>),
      Operation(COPY, None, PathB, <<>>, TRUE, <<>>) }

InitUndo ==
    /\ executed_ops \in SeqsUpTo(UndoOpPool, MaxExecutedOps)
    /\ only_mv_rename \in BOOLEAN
    /\ undoPlan = EmptyPlan("NotYet")
    /\ undoSkipped = <<>>
    /\ upc = "args"
    /\ QuoteIdle /\ SandboxIdle /\ PlanIdle /\ IndexIdle /\ TabIdle /\ MediaIdle /\ NfoIdle /\ SshIdle /\ ReverseIdle /\ RenameIdle /\ JournalIdle

BuildUndoPlan ==
    /\ upc = "args"
    /\ LET r == build_undo_plan(executed_ops, "Undo", only_mv_rename) IN
          /\ undoPlan' = r.plan
          /\ undoSkipped' = r.skipped
    /\ upc' = "done"
    /\ UNCHANGED <<executed_ops, only_mv_rename>>
    /\ UNCHANGED <<qvars, sbvars, plvars, ixvars, tabvars, mgvars, nfvars, shvars, rvvars, rnvars, jrvars>>

NextUndo == BuildUndoPlan

SpecUndo == InitUndo /\ [][NextUndo]_vars

\* a move or rename that has both a source and a destination
Reversible(op) ==
    /\ op.kind \in {MOVE, RENAME}
    /\ op.src # None /\ op.src # <<>>
    /\ op.dst # None /\ op.dst # <<>>

\* C6: for either value of only_mv_rename the operations of the undo plan
\* are exactly the executed move/rename operations that have both a source
\* and a destination, in reverse order, each as a selected move with source
\* and destination swapped; mkdir, hardlink and copy operations give none.
\* The three-step swap yields [move(/b -> /t), move(/a -> /b), move(/t -> /a)].
C6_UndoPlanOperations ==
    upc = "done" =>
        LET rev == SelectSeq(executed_ops, Reversible)
            n == Len(rev)
            undo == undoPlan.operations
        IN
        /\ Len(undo) = n
        /\ \A k \in 1..n :
              /\ undo[k].kind = MOVE
              /\ undo[k].selected
              /\ undo[k].src = rev[n + 1 - k].dst
              /\ undo[k].dst = rev[n + 1 - k].src
        /\ executed_ops = SwapOps =>
              /\ [k \in 1..3 |-> <<undo[k].src, undo[k].dst>>] =
                    << <<PathB, PathT>>, <<PathA, PathB>>, <<PathT, PathA>> >>

\* the three-step swap was reversed
C6_Witness ==
    /\ upc = "done"
    /\ executed_ops = SwapOps
    /\ ~only_mv_rename
    /\ Len(undoPlan.operations) = 3
    /\ undoPlan.operations[1].src = PathB
    /\ undoPlan.operations[1].dst = PathT

\* an operation build_undo_plan does not reverse and the claim wants
\* reported: a hardlink, a copy, or a move/rename lacking a source or a
\* destination
Unreversed(op) ==
    \/ op.kind \in {LINK, COPY}
    \/ op.kind \in {MOVE, RENAME} /\ ~Reversible(op)

\* C13: build_undo_plan records every hardlink or copy operation and every
\* move/rename operation that lacks a source or a destination as a skip
\* message in the returned list (one message per such operation), and every
\* skip message is among the warnings of the undo plan.
C13_SkipsRecorded ==
    upc = "done" =>
        /\ Len(undoSkipped) = Len(SelectSeq(executed_ops, Unreversed))
        /\ Range(undoSkipped) \subseteq Range(undoPlan.warnings)

-----------------------------------------------------------------------------
(* SpecIndex: scans (upsert_paths) and apply_plan_to_index calls on the    *)
(* analysis index, in any order.                                           *)

MaxIndexCalls == 3

\* the paths of the scans and plans: files a/x, a/b/a/y, b/x, b/y, a/a/x,
\* a/a/y and A/x.A, directories a, b and a/a, all under the root "/"
IndexPaths ==
    [ax |-> <<"/","a","/","x">>, abay |-> <<"/","a","/","b","/","a","/","y">>,
     bx |-> <<"/","b","/","x">>, by |-> <<"/","b","/","y">>,
     aax |-> <<"/","a","/","a","/","x">>, aay |-> <<"/","a","/","a","/","y">>,
     upper |-> <<"/","A","/","x",".","A">>,
     a |-> <<"/","a">>, b |-> <<"/","b">>, aa |-> <<"/","a","/","a">>,
     slash |-> <<"/">>]

\* the file lists of scans with their root markers
IndexScanPool ==
    { [paths |-> <<IndexPaths.ax, IndexPaths.abay>>, root |-> IndexPaths.a],
      [paths |-> <<IndexPaths.bx>>,           root |-> IndexPaths.slash],
      [paths |-> <<IndexPaths.upper>>,        root |-> IndexPaths.slash],
      [paths |-> <<IndexPaths.aax>>,          root |-> IndexPaths.aa] }

IndexOp(kind, src, dst, selected) == Operation(kind, src, dst, None, selected, None)

IndexPlan(ops) == [title |-> "Move", operations |-> ops, warnings |-> <<>>]

\* the plans applied, each with the roots_hint of the call
IndexPlanPool ==
    { [plan |-> IndexPlan(<<IndexOp(MOVE, IndexPaths.a, IndexPaths.b, TRUE)>>),        hint |-> <<>>],
      [plan |-> IndexPlan(<<IndexOp(MOVE, IndexPaths.a, IndexPaths.aa, TRUE)>>),       hint |-> <<>>],
      [plan |-> IndexPlan(<<IndexOp(MOVE, IndexPaths.ax, IndexPaths.by, TRUE)>>),    hint |-> <<>>],
      [plan |-> IndexPlan(<<IndexOp(MOVE, IndexPaths.ax, IndexPaths.by, TRUE)>>),    hint |-> <<IndexPaths.b>>],
      [plan |-> IndexPlan(<<IndexOp(RENAME, IndexPaths.ax, IndexPaths.aay, TRUE)>>), hint |-> <<>>],
      [plan |-> IndexPlan(<<IndexOp(COPY, IndexPaths.ax, IndexPaths.bx, TRUE)>>),    hint |-> <<>>],
      [plan |-> IndexPlan(<<IndexOp(LINK, IndexPaths.bx, IndexPaths.aay, TRUE)>>),   hint |-> <<>>],
      [plan |-> IndexPlan(<<IndexOp(MKDIR, None, IndexPaths.b, TRUE),
                            IndexOp(MOVE, IndexPaths.ax, IndexPaths.by, FALSE)>>),   hint |-> <<>>],
      [plan |-> IndexPlan(<<IndexOp(MOVE, IndexPaths.ax, IndexPaths.bx, TRUE),
                            IndexOp(MOVE, IndexPaths.a, IndexPaths.b, TRUE)>>),        hint |-> <<>>],
      [plan |-> IndexPlan(<<IndexOp(LINK, IndexPaths.bx, IndexPaths.aay, TRUE),
                            IndexOp(MOVE, IndexPaths.a, IndexPaths.b, TRUE)>>),        hint |-> <<>>] }

InitIndex ==
    /\ IndexIdle
    /\ QuoteIdle /\ SandboxIdle /\ PlanIdle /\ UndoIdle /\ TabIdle /\ MediaIdle /\ NfoIdle /\ SshIdle /\ ReverseIdle /\ RenameIdle /\ JournalIdle

\* tab_analysis: a finished scan stores its file list
UpsertPaths ==
    /\ clock < MaxIndexCalls
    /\ \E scan \in IndexScanPool :
          files' = upsert_paths(files, scan.paths, scan.root, clock + 1)
    /\ clock' = clock + 1
    /\ ixCall' = "scan"
    /\ ixBefore' = files
    /\ ixPlan' = EmptyPlan("NotYet")
    /\ ixHint' = <<>>
    /\ ixStats' = IndexUpdateStats(0, 0, 0)
    /\ ixRaised' = FALSE
    /\ UNCHANGED <<qvars, sbvars, plvars, unvars, tabvars, mgvars, nfvars, shvars, rvvars, rnvars, jrvars>>

ApplyPlanToIndex ==
    /\ clock < MaxIndexCalls
    /\ \E call \in IndexPlanPool, in_order \in BOOLEAN :
          LET r == apply_plan_to_index(call.plan, call.hint, files, clock + 1, in_order)
          IN  /\ files' = r.rows
              /\ ixStats' = r.stats
              /\ ixRaised' = r.raised
              /\ ixPlan' = call.plan
              /\ ixHint' = call.hint
    /\ clock' = clock + 1
    /\ ixCall' = "apply"
    /\ ixBefore' = files
    /\ UNCHANGED <<qvars, sbvars, plvars, unvars, tabvars, mgvars, nfvars, shvars, rvvars, rnvars, jrvars>>

NextIndex == UpsertPaths \/ ApplyPlanToIndex

SpecIndex == InitIndex /\ [][NextIndex]_vars

\* the call just made applied a plan of one operation, a selected move or
\* rename with both paths, and returned
OneMoveApplied ==
    /\ ixCall = "apply" /\ ~ixRaised
    /\ Len(ixPlan.operations) = 1
    /\ ixPlan.operations[1].selected
    /\ ixPlan.operations[1].kind \in {MOVE, RENAME}
    /\ ~Falsy(ixPlan.operations[1].src) /\ ~Falsy(ixPlan.operations[1].dst)
    /\ ixPlan.operations[1].src # ixPlan.operations[1].dst

RowsUnder(rows, dir) == {r \in rows : StartsWith(r.path, dir \o <<"/">>)}

\* s with its leading src replaced by dst
Reprefix(s, src, dst) == dst \o Drop(s, Len(src))

\* C9: a selected move src -> dst whose src is no row, with rows under
\* src + "/": each such row has the leading src of its path and its dir
\* replaced by dst and is otherwise as before (dir = src becomes dst), and
\* the statistics are updated_prefix = the number of those rows, inserted = 0
\* and deleted = 0.
C9_PrefixRewrite ==
    LET op    == ixPlan.operations[1]
        under == RowsUnder(ixBefore, op.src)
    IN  (OneMoveApplied /\ under # {} /\ ~\E r \in ixBefore : r.path = op.src) =>
            /\ \A r \in under : \E q \in files :
                  /\ q.path = Reprefix(r.path, op.src, op.dst)
                  /\ q.dir  = Reprefix(r.dir, op.src, op.dst)
                  /\ q.name = r.name /\ q.ext = r.ext /\ q.root = r.root
            /\ ixStats = IndexUpdateStats(0, 0, Cardinality(under))

\* a root marker contains a path when its components lead the path's
MarkerContains(m, path) ==
    /\ PurePosixParts(m) # <<>>
    /\ StartsWith(PurePosixParts(path), PurePosixParts(m))

\* C10: a selected move/rename whose source is a row: afterwards the source
\* is no row, the destination is a row whose root marker is the longest
\* known marker containing the destination, or the source row's old marker
\* when none contains it; deleted = inserted = 1; other rows are unchanged.
C10_FileMoveRoot ==
    LET op    == ixPlan.operations[1]
        known == {r.root : r \in ixBefore}
                 \cup Range(ixHint)
        containing == {m \in known : MarkerContains(m, op.dst)}
        longest == {m \in containing : \A n \in containing :
                       Len(PurePosixParts(n)) <= Len(PurePosixParts(m))}
    IN  (OneMoveApplied /\ \E r \in ixBefore : r.path = op.src) =>
            LET old == CHOOSE r \in ixBefore : r.path = op.src IN
            /\ ~\E r \in files : r.path = op.src
            /\ \E r \in files :
                  /\ r.path = op.dst
                  /\ IF containing = {} THEN r.root = old.root
                     ELSE r.root \in longest
            /\ ixStats.deleted = 1 /\ ixStats.inserted = 1
            /\ \A r \in ixBefore : r.path \notin {op.src, op.dst} => r \in files
            /\ \A r \in files : r.path # op.dst => r \in ixBefore

\* the table as the transaction of the call just made left it when it
\* stopped, committed or not
IndexWorkingRows(in_order) ==
    LET Selected(o) == o.selected
    IN  IndexApplyOps(IndexBegin(ixBefore), SelectSeq(ixPlan.operations, Selected),
                      IndexRoots(ixBefore, ixHint), clock, in_order)

\* the final extension of name, lowercased; empty when name has no dot
FinalExt(name) ==
    IF \A i \in 1..Len(name) : name[i] # "." THEN <<>>
    ELSE LET k == CHOOSE i \in 1..Len(name) :
                      name[i] = "." /\ \A j \in (i + 1)..Len(name) : name[j] # "."
         IN [i \in 1..(Len(name) - k) |-> Lower(name[k + i])]

\* C28: after any sequence of scans and apply_plan_to_index calls every row
\* is consistent: its path is dir + "/" + name ("/" + name when dir is "/")
\* and its ext is the lowercased final extension of name.
C28_RowsConsistent ==
    \A r \in files :
        /\ r.path = (IF r.dir = <<"/">> THEN <<"/">> ELSE r.dir \o <<"/">>) \o r.name
        /\ r.ext = FinalExt(r.name)

\* C11: apply_plan_to_index is all-or-nothing per plan: when the processing
\* of an operation of the plan fails, nothing of that plan is committed and
\* the catalog equals its state before the call; when it returns, the
\* catalog is the one that results from the whole plan.
C11_AllOrNothing ==
    ixCall = "apply" =>
        /\ ixRaised => files = ixBefore
        /\ ~ixRaised => \E in_order \in BOOLEAN :
               /\ ~IndexWorkingRows(in_order).raised
               /\ files = IndexWorkingRows(in_order).rows

\* a call that failed on its second operation after its first had changed
\* the table inside the transaction
C11_Witness ==
    /\ ixCall = "apply" /\ ixRaised
    /\ files = ixBefore
    /\ \E in_order \in BOOLEAN :
          /\ IndexWorkingRows(in_order).raised
          /\ IndexWorkingRows(in_order).rows # ixBefore

-----------------------------------------------------------------------------
(* SpecTab: the Move tab, the settings and connection handlers that it     *)
(* shares state with, and the threads of _worker_exec.  The handlers run   *)
(* on the Tk thread, one at a time; the steps of a worker interleave with  *)
(* them.                                                                   *)

MaxRuns == 1

\* Settings.allowed_roots as the settings form can save it
RootsPool == {<<>>, <<IndexPaths.slash>>}

\* Settings.video_exts + sidecar_exts: one configured extension
TabExts == {<<"v">>}

\* the index a session starts with: two files of an earlier scan of /a
TabCatalog ==
    upsert_paths({}, << <<"/","a","/","x",".","v">>, <<"/","a","/","y",".","v">> >>,
                 IndexPaths.a, 0)

ExitCodes == {0, 1}

InitTab ==
    /\ settings_allowed_roots \in RootsPool
    /\ dry_run \in BOOLEAN
    /\ _plan = NoPlan
    /\ _script = EmptyScript
    /\ connected = FALSE
    /\ workers = <<>>
    /\ journal = <<>>
    /\ files = TabCatalog /\ clock = 0 /\ ixCall = "none"
    /\ ixPlan = EmptyPlan("NotYet") /\ ixHint = <<>> /\ ixBefore = {}
    /\ ixStats = IndexUpdateStats(0, 0, 0) /\ ixRaised = FALSE
    /\ QuoteIdle /\ SandboxIdle /\ PlanIdle /\ UndoIdle /\ MediaIdle /\ NfoIdle /\ SshIdle /\ ReverseIdle /\ RenameIdle /\ JournalIdle

\* tab_connection._save_settings
SaveSettings ==
    /\ \E roots \in RootsPool : settings_allowed_roots' = roots
    /\ UNCHANGED <<dry_run, _plan, _script, connected, workers, journal>>
    /\ UNCHANGED <<qvars, sbvars, plvars, unvars, ixvars, mgvars, nfvars, shvars, rvvars, rnvars, jrvars>>

\* tab_connection._connect, once its worker has connected
Connect ==
    /\ ~connected
    /\ connected' = TRUE
    /\ UNCHANGED <<settings_allowed_roots, dry_run, _plan, _script, workers, journal>>
    /\ UNCHANGED <<qvars, sbvars, plvars, unvars, ixvars, mgvars, nfvars, shvars, rvvars, rnvars, jrvars>>

\* tab_connection._disconnect
Disconnect ==
    /\ connected
    /\ connected' = FALSE
    /\ UNCHANGED <<settings_allowed_roots, dry_run, _plan, _script, workers, journal>>
    /\ UNCHANGED <<qvars, sbvars, plvars, unvars, ixvars, mgvars, nfvars, shvars, rvvars, rnvars, jrvars>>

\* the dry-run checkbox is clicked: MoveTab._dry_run_changed
DryRunChanged ==
    /\ dry_run' = ~dry_run
    /\ _script' = _regen_script(_plan, settings_allowed_roots, ~dry_run, _script).script
    /\ UNCHANGED <<settings_allowed_roots, _plan, connected, workers, journal>>
    /\ UNCHANGED <<qvars, sbvars, plvars, unvars, ixvars, mgvars, nfvars, shvars, rvvars, rnvars, jrvars>>

\* MoveTab._build_plan with source /a and destination /b, the thread of
\* _worker_build_plan that it starts, and the callback _apply of that thread
BuildPlan ==
    LET built == _worker_build_plan(files, IndexPaths.a, IndexPaths.b, TabExts) IN
    /\ assert_path_allowed(settings_allowed_roots, IndexPaths.a) = "ok"
    /\ assert_path_allowed(settings_allowed_roots, IndexPaths.b) = "ok"
    /\ built # NoPlan
    /\ _plan' = built
    /\ _script' = _regen_script(built, settings_allowed_roots, dry_run, _script).script
    /\ UNCHANGED <<settings_allowed_roots, dry_run, connected, workers, journal>>
    /\ UNCHANGED <<qvars, sbvars, plvars, unvars, ixvars, mgvars, nfvars, shvars, rvvars, rnvars, jrvars>>

\* a double click on a row of the preview: PlanTable._on_double_click
ToggleRow ==
    /\ \E i \in 1..Len(_plan.operations) :
          LET toggled == [_plan EXCEPT !.operations[i].selected = ~@]
          IN  /\ _plan' = toggled
              /\ _script' = _regen_script(toggled, settings_allowed_roots, dry_run, _script).script
    /\ UNCHANGED <<settings_allowed_roots, dry_run, connected, workers, journal>>
    /\ UNCHANGED <<qvars, sbvars, plvars, unvars, ixvars, mgvars, nfvars, shvars, rvvars, rnvars, jrvars>>

\* MoveTab._execute with a plan at hand; choice is the answer to the dry-run
\* dialog (a cancelled dialog changes nothing).  The code puts no limit on
\* the threads it starts: max_runs bounds the runs of a behaviour.
_execute(max_runs) ==
    /\ _plan # NoPlan
    /\ connected
    /\ count_selected(_plan) # 0
    /\ Len(workers) < max_runs
    /\ \E choice \in {"real", "test"} :
          LET real == dry_run /\ choice = "real"
              r == IF real
                   THEN _regen_script(_plan, settings_allowed_roots, FALSE, _script)
                   ELSE [script |-> _script, raised |-> FALSE]
          IN  /\ dry_run' = IF real THEN FALSE ELSE dry_run
              /\ _script' = r.script
              /\ workers' = IF r.raised THEN workers ELSE Append(workers, NewWorker)
    /\ UNCHANGED <<settings_allowed_roots, _plan, connected, journal>>
    /\ UNCHANGED <<qvars, sbvars, plvars, unvars, ixvars, mgvars, nfvars, shvars, rvvars, rnvars, jrvars>>

\* a click on the Execute button
Execute == _execute(MaxRuns)

\* _worker_exec up to the sending of self._script: the asserts, then
\* exec_bash_script_streaming, which raises when the client is gone or the
\* channel cannot be opened or written
WorkerExec ==
    /\ \E i \in 1..Len(workers), channel_ok \in BOOLEAN :
          /\ workers[i].pc = "spawned"
          /\ workers' = [workers EXCEPT ![i] =
                IF _script = EmptyScript THEN [@ EXCEPT !.pc = "died"]
                ELSE IF connected /\ channel_ok
                THEN [@ EXCEPT !.pc = "running", !.sent = _script]
                ELSE [@ EXCEPT !.pc = "failed"]]
    /\ UNCHANGED <<settings_allowed_roots, dry_run, _plan, _script,
                   connected, journal>>
    /\ UNCHANGED <<qvars, sbvars, plvars, unvars, ixvars, mgvars, nfvars, shvars, rvvars, rnvars, jrvars>>

\* the script has ended on the remote host: exec_bash_script_streaming
\* returns the exit status and _worker_exec appends the journal record.  Of
\* the record the model keeps dry_run and exit_code; run names the worker
\* that wrote the line.  Its script and ops fields are self._script and the
\* selected operations of self._plan as they are at this step.
WorkerJournal ==
    /\ \E i \in 1..Len(workers), code \in ExitCodes :
          /\ workers[i].pc = "running"
          /\ workers' = [workers EXCEPT ![i] =
                [@ EXCEPT !.pc = "journaled", !.exit_code = code]]
          /\ journal' = Append(journal,
                [run |-> i, dry_run |-> dry_run, exit_code |-> code])
    /\ UNCHANGED <<settings_allowed_roots, dry_run, _plan, _script,
                   connected>>
    /\ UNCHANGED <<qvars, sbvars, plvars, unvars, ixvars, mgvars, nfvars, shvars, rvvars, rnvars, jrvars>>

\* what the index update r of worker i leaves: the table, the statistics
\* and the worker after its try/except
IndexUpdated(i, r) ==
    /\ \E exc_bound \in BOOLEAN :
          workers' = [workers EXCEPT ![i] = AfterIndexUpdate(@, r.raised, exc_bound)]
    /\ files' = r.rows
    /\ clock' = clock + 1
    /\ ixCall' = "apply"
    /\ ixPlan' = _plan
    /\ ixHint' = <<>>
    /\ ixBefore' = files
    /\ ixStats' = r.stats
    /\ ixRaised' = r.raised


\* the rest of _worker_exec: the index is brought up to date when the exit
\* status is 0 and the dry-run checkbox is off; an exception of the update
\* is caught.  db_states holds TRUE when the index database may be usable
\* and FALSE when it may be unusable.
_worker_index(db_states) ==
    /\ \E i \in 1..Len(workers), in_order \in BOOLEAN, db_ok \in db_states :
          /\ workers[i].pc = "journaled"
          /\ IF workers[i].exit_code = 0 /\ ~dry_run
             THEN IndexUpdated(i, IF db_ok
                                 THEN apply_plan_to_index(_plan, <<>>, files, clock + 1, in_order)
                                 ELSE IndexUnavailable(files))
             ELSE /\ workers' = [workers EXCEPT ![i] = [@ EXCEPT !.pc = "done"]]
                  /\ UNCHANGED ixvars
    /\ UNCHANGED <<settings_allowed_roots, dry_run, _plan, _script,
                   connected, journal>>
    /\ UNCHANGED <<qvars, sbvars, plvars, unvars, mgvars, nfvars, shvars, rvvars, rnvars, jrvars>>

\* the index update of a worker with the index database at hand
WorkerIndex == _worker_index({TRUE})

NextTab ==
    \/ SaveSettings \/ Connect \/ Disconnect \/ DryRunChanged
    \/ BuildPlan \/ ToggleRow \/ Execute
    \/ WorkerExec \/ WorkerJournal \/ WorkerIndex

SpecTab == InitTab /\ [][NextTab]_vars

\* the calls of a script, each line split into its shell words
DecodedCalls(script) == [i \in 1..Len(script.calls) |-> shlex_split(script.calls[i])]

\* one guarded call per selected operation of the plan, in plan order
ExpectedCalls(p) ==
    [i \in 1..count_selected(p) |-> <<SafeVerb(SelectedOps(p)[i].kind)>> \o ScriptArgs(SelectedOps(p)[i])]

\* C5: the script holds one guarded call for each selected operation, none
\* for an unselected one, in the order of the plan: whenever the plan or its
\* selection changes (a new plan, a toggle in the preview) the script is
\* regenerated to match, and the script a run sends matches the selection at
\* that moment.
C5_ScriptFollowsSelection ==
    [][ /\ (_plan' # _plan) => DecodedCalls(_script') = ExpectedCalls(_plan')
        /\ \A i \in 1..Len(workers) :
              (workers[i].pc = "spawned" /\ workers'[i].pc = "running") =>
                  DecodedCalls(workers'[i].sent) = ExpectedCalls(_plan) ]_vars

\* C7: every run of the script, whether it ended with exit status 0, with
\* another exit status or with an exec error or channel failure, has appended
\* exactly one journal record, which carries the observed exit code; a step
\* never changes the journal lines that are already there.
C7_OneRecordPerRun ==
    /\ [](\A i \in 1..Len(workers) :
             workers[i].pc \in {"done", "failed"} =>
                 /\ Cardinality({k \in 1..Len(journal) : journal[k].run = i}) = 1
                 /\ workers[i].pc = "done" =>
                        \E k \in 1..Len(journal) :
                            journal[k].run = i /\ journal[k].exit_code = workers[i].exit_code)
    /\ [][ /\ Len(journal') >= Len(journal)
           /\ SubSeq(journal', 1, Len(journal)) = journal ]_vars

\* C8: under every interleaving, a worker calls apply_plan_to_index only if
\* the script it executed had dry-run off and the exit status was 0.
C8_IndexOnlyAfterRealSuccess ==
    [][ \A i \in 1..Len(workers) :
           (workers[i].pc = "journaled" /\ workers'[i].pc = "done" /\ clock' # clock) =>
               (~workers[i].sent.dry_run /\ workers[i].exit_code = 0) ]_vars

\* C21: the journal record of a run records what was attempted, under every
\* interleaving of toggles and rebuilds with the worker: at the step that
\* appends the record, the script text it takes (self._script) is the script
\* that was sent, the operations it takes (the selected operations of
\* self._plan) are those the sent script was generated from, and its dry_run
\* flag is the flag the sent script was generated with.
C21_JournalRecordsAttempt ==
    [][ \A i \in 1..Len(workers) :
           (workers[i].pc = "running" /\ workers'[i].pc = "journaled") =>
               /\ _script = workers[i].sent
               /\ ExpectedCalls(_plan) = DecodedCalls(workers[i].sent)
               /\ journal'[Len(journal')].dry_run = workers[i].sent.dry_run ]_vars

\* C24: a failure of apply_plan_to_index after a successful real run is
\* caught and logged as a warning and is not escalated: the worker ends as
\* after a run without failure, with its exit status 0, the warning line is
\* in the log, and the journal record of the run, appended before the
\* update started, stays in the journal.
C24_IndexFailureNotEscalated ==
    [][ \A i \in 1..Len(workers) :
           (workers[i].pc = "journaled" /\ workers'[i].pc # "journaled"
              /\ clock' # clock /\ ixRaised') =>
               /\ workers'[i].pc = "done"
               /\ workers'[i].exit_code = 0
               /\ workers'[i].warned
               /\ journal' = journal
               /\ \E k \in 1..Len(journal) : journal[k].run = i /\ journal[k].exit_code = 0 ]_vars

-----------------------------------------------------------------------------
(* SpecGroup: group_media_files on the file lists the tabs hand it: paths  *)
(* of the analysis index or of a remote find, each path once.              *)
(* SpecGroupAny: the same call on any sequence of paths.                   *)

MaxGroupPaths == 4

\* a movie with a subtitle and its nfo, folder-level artwork and a
\* folder-level nfo, a second video, a second directory, and the movie in a
\* second container format
MediaPaths ==
    [movie_mkv |-> <<"/", "m", "/", "M", "o", "v", "i", "e", ".", "m", "k", "v">>,
     movie_srt |-> <<"/", "m", "/", "M", "o", "v", "i", "e", ".", "e", "n", ".", "s", "r", "t">>,
     movie_nfo |-> <<"/", "m", "/", "M", "o", "v", "i", "e", ".", "n", "f", "o">>,
     poster |-> <<"/", "m", "/", "p", "o", "s", "t", "e", "r", ".", "j", "p", "g">>,
     b_mkv |-> <<"/", "m", "/", "B", ".", "m", "k", "v">>,
     folder_nfo |-> <<"/", "m", "/", "m", "o", "v", "i", "e", ".", "n", "f", "o">>,
     n_poster |-> <<"/", "n", "/", "P", "o", "s", "t", "e", "r", ".", "j", "p", "g">>,
     n_mkv |-> <<"/", "n", "/", "A", ".", "m", "k", "v">>,
     movie_mov |-> <<"/", "m", "/", "M", "o", "v", "i", "e", ".", "m", "o", "v">>]

MediaPathPool == {MediaPaths[k] : k \in DOMAIN MediaPaths}

InitGroupAny ==
    /\ mgPaths \in SeqsUpTo(MediaPathPool, MaxGroupPaths)
    /\ mgGroups = <<>>
    /\ mgpc = "args"
    /\ QuoteIdle /\ SandboxIdle /\ PlanIdle /\ UndoIdle /\ IndexIdle /\ TabIdle /\ NfoIdle /\ SshIdle /\ ReverseIdle /\ RenameIdle /\ JournalIdle

InitGroup ==
    /\ InitGroupAny
    /\ \A i, j \in 1..Len(mgPaths) : i # j => mgPaths[i] # mgPaths[j]

GroupMediaFiles ==
    /\ mgpc = "args"
    /\ mgGroups' = group_media_files(mgPaths, DEFAULT_VIDEO_EXTS, DEFAULT_SIDECAR_EXTS)
    /\ mgpc' = "done"
    /\ UNCHANGED mgPaths
    /\ UNCHANGED <<qvars, sbvars, plvars, unvars, ixvars, tabvars, nfvars, shvars, rvvars, rnvars, jrvars>>

NextGroup == GroupMediaFiles

SpecGroup == InitGroup /\ [][NextGroup]_vars

SpecGroupAny == InitGroupAny /\ [][NextGroup]_vars

\* the videos among the paths given that lie in directory d
VideosIn(d) ==
    {p \in Range(mgPaths) : MediaFile(p).dir = d
                            /\ MediaFile(p).suffix \in DEFAULT_VIDEO_EXTS}

\* the file at path p goes with the stem of the video at path vp
GoesWithStem(p, vp) ==
    LET f == MediaFile(p)
        v == MediaFile(vp)
    IN  \/ f.suffix = <<"n", "f", "o">> /\ f.stem = v.stem
        \/ StartsWith(f.name, v.stem \o <<".">>)
        \/ StartsWith(f.name, v.stem \o <<"-">>)

\* the file at path p is a sidecar that bears a folder-level name and goes
\* with the stem of no video of its directory
FolderLevelOnly(p) ==
    LET f == MediaFile(p)
    IN  /\ f.suffix \in DEFAULT_SIDECAR_EXTS
        /\ LowerStr(f.name) \in FOLDER_LEVEL_SIDECAR_NAMES \cup FOLDER_LEVEL_NFO_NAMES
        /\ \A vp \in VideosIn(f.dir) : ~GoesWithStem(p, vp)

\* the groups that hold the file at path p as a sidecar
GroupsHolding(p) == {k \in 1..Len(mgGroups) : p \in Range(mgGroups[k].sidecars)}

\* the files of the example: Movie.mkv, Movie.en.srt, Movie.nfo, poster.jpg
MovieExample ==
    {MediaPaths.movie_mkv, MediaPaths.movie_srt, MediaPaths.movie_nfo, MediaPaths.poster}

\* C14: a file that matches only the folder-level name rule is attached to
\* a group (the one of the video of its directory) if and only if its
\* directory holds exactly one video; with two or more videos in the
\* directory it is attached to no group.  With Movie.mkv, Movie.en.srt,
\* Movie.nfo and poster.jpg in one directory there is one group, it has the
\* three sidecars, and its nfo is Movie.nfo.
C14_FolderLevelAttachment ==
    mgpc = "done" =>
        /\ \A p \in Range(mgPaths) :
              FolderLevelOnly(p) =>
                  IF Cardinality(VideosIn(MediaFile(p).dir)) = 1
                  THEN /\ GroupsHolding(p) # {}
                       /\ \A k \in GroupsHolding(p) :
                             mgGroups[k].video \in VideosIn(MediaFile(p).dir)
                  ELSE GroupsHolding(p) = {}
        /\ Range(mgPaths) = MovieExample =>
              /\ Len(mgGroups) = 1
              /\ mgGroups[1].video = MediaPaths.movie_mkv
              /\ Len(mgGroups[1].sidecars) = 3
              /\ Range(mgGroups[1].sidecars) = MovieExample \ {MediaPaths.movie_mkv}
              /\ mgGroups[1].nfo = MediaPaths.movie_nfo

\* the example was grouped, with the nfo listed after the poster
C14_Witness ==
    /\ mgpc = "done"
    /\ mgPaths = <<MediaPaths.poster, MediaPaths.movie_mkv,
                   MediaPaths.movie_srt, MediaPaths.movie_nfo>>
    /\ Len(mgGroups) = 1
    /\ FolderLevelOnly(MediaPaths.poster)
    /\ GroupsHolding(MediaPaths.poster) = {1}

\* C15: for every sequence of paths, in which a path may occur more than
\* once, every group returned has its video and all its sidecars in the
\* directory of the group, and its sidecars hold no path twice.
C15_GroupMembers ==
    mgpc = "done" =>
        \A k \in 1..Len(mgGroups) :
            LET g == mgGroups[k] IN
            /\ MediaFile(g.video).dir = g.directory
            /\ \A i \in 1..Len(g.sidecars) : MediaFile(g.sidecars[i]).dir = g.directory
            /\ \A i, j \in 1..Len(g.sidecars) : i # j => g.sidecars[i] # g.sidecars[j]

\* the groups whose video is the file at path p
GroupsOfVideo(p) == {k \in 1..Len(mgGroups) : mgGroups[k].video = p}

\* C29: no path is a member of two different groups: a path is the video of
\* at most one group, a sidecar path is attached to at most one group, and
\* no path is the video of one group and a sidecar of another.
C29_GroupsDisjoint ==
    mgpc = "done" =>
        \A p \in Range(mgPaths) :
            /\ Cardinality(GroupsOfVideo(p)) <= 1
            /\ Cardinality(GroupsHolding(p)) <= 1
            /\ GroupsOfVideo(p) = {} \/ GroupsHolding(p) = {}

-----------------------------------------------------------------------------
(* SpecNfo: parse_nfo on every short document over a pool of elements.     *)

MaxNfoFields == 2

\* the tags of the documents: the five identifier tags and title
NfoTags == Range(ImdbTags) \cup {<<"t", "i", "t", "l", "e">>}

\* the texts of the elements: none, blank, too few digits, an identifier
\* after a near miss, the identifiers of the two test documents, and one
\* with eleven digits
NfoTexts ==
    { None,
      <<" ">>,
      <<"t", "t", "1", "2">>,
      <<"t", "t", "1", "2", " ", "t", "t", "0", "0", "7", "8", "7", "4", "8">>,
      <<"t", "t", "1", "3", "7", "5", "6", "6", "6">>,
      <<"t", "t", "0", "0", "7", "8", "7", "4", "8">>,
      <<"x", "t", "t", "1", "2", "3", "4", "5", "6", "7", "8", "9", "0", "1">> }

InitNfo ==
    /\ nfRoot \in SeqsUpTo([tag : NfoTags, text : NfoTexts], MaxNfoFields)
    /\ nfImdbid = None
    /\ nfpc = "args"
    /\ QuoteIdle /\ SandboxIdle /\ PlanIdle /\ UndoIdle /\ IndexIdle /\ TabIdle /\ MediaIdle /\ SshIdle /\ ReverseIdle /\ RenameIdle /\ JournalIdle

ParseNfo ==
    /\ nfpc = "args"
    /\ nfImdbid' = parse_nfo(nfRoot, ImdbTags)
    /\ nfpc' = "done"
    /\ UNCHANGED nfRoot
    /\ UNCHANGED <<qvars, sbvars, plvars, unvars, ixvars, tabvars, mgvars, shvars, rvvars, rnvars, jrvars>>

NextNfo == ParseNfo

SpecNfo == InitNfo /\ [][NextNfo]_vars

\* x is "tt" followed by 3 to 10 digits
IsImdbId(x) ==
    /\ Len(x) \in 5..12
    /\ x[1] = "t" /\ x[2] = "t"
    /\ \A i \in 3..Len(x) : x[i] \in Digits

\* the elements of the document with the tag number k of ImdbTags
NfoFields(k) == SelectSeq(nfRoot, LAMBDA el : el.tag = ImdbTags[k])

\* C16: the candidate is the text of the first non-empty field among
\* imdbid, imdb_id, imdb, id, uniqueid, in that order; the result is the
\* first match of "tt" and 3 to 10 digits in that candidate (the leftmost,
\* with as many digits as it can take), and no identifier when the candidate
\* holds none or every field is empty.  <imdbid>tt1375666</imdbid> yields
\* tt1375666; <id>tt0078748</id> without the fields before id yields
\* tt0078748.
C16_ImdbPriority ==
    nfpc = "done" =>
        LET K == {k \in 1..Len(ImdbTags) : _text(nfRoot, ImdbTags[k]) # None}
            c == _text(nfRoot, ImdbTags[CHOOSE k \in K : \A j \in K : k <= j])
            M == {m \in (1..Len(c)) \X (5..12) :
                     /\ m[1] + m[2] - 1 <= Len(c)
                     /\ IsImdbId(SubSeq(c, m[1], m[1] + m[2] - 1))}
        IN
        /\ IF K = {} THEN nfImdbid = None
           ELSE IF M = {} THEN nfImdbid = None
           ELSE \E m \in M :
                   /\ \A o \in M : m[1] < o[1] \/ (m[1] = o[1] /\ m[2] >= o[2])
                   /\ nfImdbid = SubSeq(c, m[1], m[1] + m[2] - 1)
        /\ (NfoFields(1) # <<>> /\ NfoFields(1)[1].text = <<"t", "t", "1", "3", "7", "5", "6", "6", "6">>)
              => nfImdbid = <<"t", "t", "1", "3", "7", "5", "6", "6", "6">>
        /\ (/\ NfoFields(1) = <<>> /\ NfoFields(2) = <<>> /\ NfoFields(3) = <<>>
            /\ NfoFields(4) # <<>> /\ NfoFields(4)[1].text = <<"t", "t", "0", "0", "7", "8", "7", "4", "8">>)
              => nfImdbid = <<"t", "t", "0", "0", "7", "8", "7", "4", "8">>

\* a document whose id field holds no identifier and whose uniqueid field
\* holds one: the id field is the candidate and there is no identifier
C16_Witness ==
    /\ nfpc = "done"
    /\ nfRoot = << [tag |-> ImdbTags[5], text |-> <<"t", "t", "0", "0", "7", "8", "7", "4", "8">>],
                   [tag |-> ImdbTags[4], text |-> <<"t", "t", "1", "2">>] >>
    /\ nfImdbid = None

-----------------------------------------------------------------------------
(* jfo/infra/ssh_client.py: exec_bash_script_streaming.  The call starts   *)
(* one _pump thread per stream and polls the channel; the transport thread *)
(* of the SSH library feeds the channel while they run.  The channel is    *)
(* paramiko's: exit_status_ready() is true once a status has arrived or    *)
(* the channel is closed, recv_exit_status() is -1 when the server gave no *)
(* status, and close() leaves buffered data readable.                      *)

Kinds == {"stdout", "stderr"}

\* chan.recv_ready() for stdout, chan.recv_stderr_ready() for stderr
recv_ready(kind) == chan.in_buffer[kind] # <<>>

\* chan.exit_status_ready()
exit_status_ready == chan.closed \/ chan.status_event

\* chan.recv_exit_status(), called only when exit_status_ready() is true
recv_exit_status == chan.exit_status

\* the channel after "try: chan.close() except Exception: pass": closed when
\* close() returned, as it was when close() raised
close(ok) ==
    IF ok THEN [chan EXCEPT !.closed = TRUE, !.status_event = TRUE] ELSE chan

\* the position of the first line feed of buf
FirstLF(buf) ==
    CHOOSE i \in 1..Len(buf) : buf[i] = "LF" /\ \A j \in 1..(i - 1) : buf[j] # "LF"

RECURSIVE CompleteLines(_)
\* the loop "while b"\n" in buf: line, buf = buf.split(b"\n", 1)": the lines
\* emitted and what stays in buf
CompleteLines(buf) ==
    IF \A i \in 1..Len(buf) : buf[i] # "LF" THEN [lines |-> <<>>, buf |-> buf]
    ELSE LET i == FirstLF(buf)
             rest == CompleteLines(SubSeq(buf, i + 1, Len(buf)))
         IN [lines |-> <<SubSeq(buf, 1, i - 1)>> \o rest.lines, buf |-> rest.buf]

\* the line boundaries of str.splitlines among the characters modelled
LineBoundaries == {"LF", "CR", "VT", "FF"}

RECURSIVE splitlines(_)
\* text.splitlines(): the lines of text without their boundaries, CR LF
\* being one boundary, and no empty line after a final boundary
splitlines(text) ==
    IF text = <<>> THEN <<>>
    ELSE IF \A i \in 1..Len(text) : text[i] \notin LineBoundaries THEN <<text>>
    ELSE LET i == CHOOSE k \in 1..Len(text) :
                      /\ text[k] \in LineBoundaries
                      /\ \A j \in 1..(k - 1) : text[j] \notin LineBoundaries
             n == IF text[i] = "CR" /\ i < Len(text) /\ text[i + 1] = "LF" THEN i + 1 ELSE i
         IN <<SubSeq(text, 1, i - 1)>> \o splitlines(SubSeq(text, n + 1, Len(text)))

-----------------------------------------------------------------------------
(* SpecStream: one call of exec_bash_script_streaming on a connected       *)
(* client, with a script that writes a few characters to each stream and   *)
(* exits, and a caller that may set cancel_event at any time.              *)

\* the most characters the script writes to one stream
MaxStreamLen == 3

\* what the script writes: on stdout the first characters of two lines, so
\* that the last line may lack its line feed, and on stderr a line or nothing
StreamOutputs ==
    [stdout : {SubSeq(<<"a", "LF", "b", "LF">>, 1, n) : n \in 0..MaxStreamLen},
     stderr : {<<>>, <<"e", "LF">>}]

InitStream ==
    /\ shWritten \in StreamOutputs
    /\ shRemote = shWritten
    /\ chan = [closed |-> FALSE, status_event |-> FALSE, exit_status |-> -1,
               in_buffer |-> [stdout |-> <<>>, stderr |-> <<>>]]
    /\ cancel_event = FALSE
    /\ pump = [stdout |-> [pc |-> "new", buf |-> <<>>], stderr |-> [pc |-> "new", buf |-> <<>>]]
    /\ shLines = [stdout |-> <<>>, stderr |-> <<>>]
    /\ shpc = "call"
    /\ shResult = <<>>
    /\ QuoteIdle /\ SandboxIdle /\ PlanIdle /\ UndoIdle /\ IndexIdle /\ TabIdle /\ MediaIdle /\ NfoIdle /\ ReverseIdle /\ RenameIdle /\ JournalIdle

\* the call up to t_err.start(): the session is opened, "bash -s" started,
\* the script sent, and both pumps started
StartStreaming ==
    /\ shpc = "call"
    /\ shpc' = "wait"
    /\ pump' = [k \in Kinds |-> [pc |-> "top", buf |-> <<>>]]
    /\ UNCHANGED <<chan, cancel_event, shRemote, shWritten, shLines, shResult>>
    /\ UNCHANGED <<qvars, sbvars, plvars, unvars, ixvars, tabvars, mgvars, nfvars, rvvars, rnvars, jrvars>>

\* the transport thread receives the next n characters of a stream
DataArrives ==
    /\ shpc # "call" /\ ~chan.closed
    /\ \E kind \in Kinds : \E n \in 1..Len(shRemote[kind]) :
          /\ chan' = [chan EXCEPT !.in_buffer[kind] = @ \o SubSeq(shRemote[kind], 1, n)]
          /\ shRemote' = [shRemote EXCEPT ![kind] = SubSeq(@, n + 1, Len(@))]
    /\ UNCHANGED <<cancel_event, shWritten, pump, shLines, shpc, shResult>>
    /\ UNCHANGED <<qvars, sbvars, plvars, unvars, ixvars, tabvars, mgvars, nfvars, rvvars, rnvars, jrvars>>

\* the transport thread receives the exit status, which the server sends
\* after the output of the script
ExitStatusArrives ==
    /\ shpc # "call" /\ ~chan.closed /\ ~chan.status_event
    /\ shRemote.stdout = <<>> /\ shRemote.stderr = <<>>
    /\ \E code \in ExitCodes :
          chan' = [chan EXCEPT !.status_event = TRUE, !.exit_status = code]
    /\ UNCHANGED <<cancel_event, shRemote, shWritten, pump, shLines, shpc, shResult>>
    /\ UNCHANGED <<qvars, sbvars, plvars, unvars, ixvars, tabvars, mgvars, nfvars, rvvars, rnvars, jrvars>>

\* the caller sets cancel_event
Cancel ==
    /\ shpc # "returned" /\ ~cancel_event
    /\ cancel_event' = TRUE
    /\ UNCHANGED <<chan, shRemote, shWritten, pump, shLines, shpc, shResult>>
    /\ UNCHANGED <<qvars, sbvars, plvars, unvars, ixvars, tabvars, mgvars, nfvars, rvvars, rnvars, jrvars>>

\* _pump, from the top of its loop: the cancel check, then recv_ready() and,
\* when it is true, recv(4096) and the emission of the complete lines
PumpPoll(kind) ==
    /\ pump[kind].pc = "top"
    /\ IF cancel_event
       THEN /\ \E ok \in BOOLEAN : chan' = close(ok)
            /\ pump' = [pump EXCEPT ![kind].pc = "done"]
            /\ UNCHANGED shLines
       ELSE IF recv_ready(kind)
       THEN LET r == CompleteLines(pump[kind].buf \o chan.in_buffer[kind]) IN
            /\ chan' = [chan EXCEPT !.in_buffer[kind] = <<>>]
            /\ shLines' = [shLines EXCEPT ![kind] = @ \o r.lines]
            /\ pump' = [pump EXCEPT ![kind].buf = r.buf]
       ELSE /\ pump' = [pump EXCEPT ![kind].pc = "not_ready"]
            /\ UNCHANGED <<chan, shLines>>
    /\ UNCHANGED <<cancel_event, shRemote, shWritten, shpc, shResult>>
    /\ UNCHANGED <<qvars, sbvars, plvars, unvars, ixvars, tabvars, mgvars, nfvars, rvvars, rnvars, jrvars>>

\* _pump, after recv_ready() was false: exit_status_ready() and, when it is
\* true, the flush of buf and the return; else the sleep and the next round
PumpStatus(kind) ==
    /\ pump[kind].pc = "not_ready"
    /\ IF exit_status_ready
       THEN /\ shLines' = [shLines EXCEPT ![kind] = @ \o splitlines(pump[kind].buf)]
            /\ pump' = [pump EXCEPT ![kind] = [pc |-> "done", buf |-> <<>>]]
       ELSE /\ pump' = [pump EXCEPT ![kind].pc = "top"]
            /\ UNCHANGED shLines
    /\ UNCHANGED <<chan, cancel_event, shRemote, shWritten, shpc, shResult>>
    /\ UNCHANGED <<qvars, sbvars, plvars, unvars, ixvars, tabvars, mgvars, nfvars, rvvars, rnvars, jrvars>>

\* one round of "while not chan.exit_status_ready()" that leaves the loop
WaitForCompletion ==
    /\ shpc = "wait"
    /\ \/ /\ exit_status_ready
          /\ UNCHANGED chan
       \/ /\ ~exit_status_ready /\ cancel_event
          /\ \E ok \in BOOLEAN : chan' = close(ok)
    /\ shpc' = "join_out"
    /\ UNCHANGED <<cancel_event, shRemote, shWritten, pump, shLines, shResult>>
    /\ UNCHANGED <<qvars, sbvars, plvars, unvars, ixvars, tabvars, mgvars, nfvars, rvvars, rnvars, jrvars>>

\* t_out.join(timeout=1.0): returns when the pump has returned or when the
\* second has passed
JoinOut ==
    /\ shpc = "join_out"
    /\ \E timed_out \in BOOLEAN : timed_out \/ pump.stdout.pc = "done"
    /\ shpc' = "join_err"
    /\ UNCHANGED <<chan, cancel_event, shRemote, shWritten, pump, shLines, shResult>>
    /\ UNCHANGED <<qvars, sbvars, plvars, unvars, ixvars, tabvars, mgvars, nfvars, rvvars, rnvars, jrvars>>

\* t_err.join(timeout=1.0) and the return statement
JoinErrAndReturn ==
    /\ shpc = "join_err"
    /\ \E timed_out \in BOOLEAN : timed_out \/ pump.stderr.pc = "done"
    /\ shResult' = <<IF exit_status_ready THEN recv_exit_status ELSE 255>>
    /\ shpc' = "returned"
    /\ UNCHANGED <<chan, cancel_event, shRemote, shWritten, pump, shLines>>
    /\ UNCHANGED <<qvars, sbvars, plvars, unvars, ixvars, tabvars, mgvars, nfvars, rvvars, rnvars, jrvars>>

NextStream ==
    \/ StartStreaming \/ DataArrives \/ ExitStatusArrives \/ Cancel
    \/ \E kind \in Kinds : PumpPoll(kind) \/ PumpStatus(kind)
    \/ WaitForCompletion \/ JoinOut \/ JoinErrAndReturn

SpecStream == InitStream /\ [][NextStream]_vars

\* C17: once cancel_event is set the call does not block: the loops stop,
\* the channel is closed and the call returns; when no exit status of the
\* script has arrived, the status it returns is 255.
C17_CancelReturns255 ==
    (shpc = "returned" /\ cancel_event /\ chan.exit_status = -1)
        => (chan.closed /\ shResult = <<255>>)

\* what the script wrote to a stream, as lines: the complete lines, then the
\* final line without line feed if there is one
WrittenLines(kind) ==
    LET r == CompleteLines(shWritten[kind])
    IN r.lines \o (IF r.buf = <<>> THEN <<>> ELSE <<r.buf>>)

\* C18: the call returns only after both pumps have returned, drained
\* when cancel_event is not set, and no on_stdout or on_stderr callback runs
\* after the call has returned.
C18_NoCallbackAfterReturn ==
    /\ []((shpc = "returned" /\ ~cancel_event) =>
              \A kind \in Kinds : pump[kind].pc = "done" /\ ~recv_ready(kind))
    /\ [][shpc = "returned" => shLines' = shLines]_vars

\* C19: without cancellation the lines passed to a callback are always the
\* first lines the script wrote to that stream, each once and in the order
\* written, and once the pump has returned they are all of them, the final
\* line without line feed included.
C19_EveryLineOnceInOrder ==
    ~cancel_event =>
        \A kind \in Kinds :
            /\ Len(shLines[kind]) <= Len(WrittenLines(kind))
            /\ shLines[kind] = SubSeq(WrittenLines(kind), 1, Len(shLines[kind]))
            /\ pump[kind].pc = "done" => shLines[kind] = WrittenLines(kind)

-----------------------------------------------------------------------------
(* SpecSession: the Move tab of a connected session with a plan built,     *)
(* where the user clicks Execute and the dry-run checkbox while the        *)
(* workers of earlier clicks run.                                          *)

\* the most clicks on Execute that start a worker
MaxSessionRuns == 2

InitSession ==
    /\ settings_allowed_roots = <<IndexPaths.slash>>
    /\ dry_run \in BOOLEAN
    /\ _plan = _worker_build_plan(TabCatalog, IndexPaths.a, IndexPaths.b, TabExts)
    /\ _script = _regen_script(_plan, settings_allowed_roots, dry_run, EmptyScript).script
    /\ connected = TRUE
    /\ workers = <<>>
    /\ journal = <<>>
    /\ files = TabCatalog /\ clock = 0 /\ ixCall = "none"
    /\ ixPlan = EmptyPlan("NotYet") /\ ixHint = <<>> /\ ixBefore = {}
    /\ ixStats = IndexUpdateStats(0, 0, 0) /\ ixRaised = FALSE
    /\ QuoteIdle /\ SandboxIdle /\ PlanIdle /\ UndoIdle /\ MediaIdle /\ NfoIdle /\ SshIdle /\ ReverseIdle /\ RenameIdle /\ JournalIdle

\* a click on the Execute button, whether or not a worker is running
ExecuteInSession == _execute(MaxSessionRuns)

\* the index update of a worker, with the index database usable or not
WorkerIndexInSession == _worker_index(BOOLEAN)

NextSession ==
    \/ ExecuteInSession \/ DryRunChanged
    \/ WorkerExec \/ WorkerJournal \/ WorkerIndexInSession

SpecSession == InitSession /\ [][NextSession]_vars

\* the workers that are inside exec_bash_script_streaming with their script
\* sent on the connection
RunningWorkers == {i \in 1..Len(workers) : workers[i].pc = "running"}

\* C20: at most one script executes on the connection at a time: while the
\* worker of one run is executing its script, no click starts a second
\* execution on the same connection.
C20_OneScriptAtATime == Cardinality(RunningWorkers) <= 1

-----------------------------------------------------------------------------
(* The remote filesystem and safe_mv, the guarded move of the generated    *)
(* script (spec.md 4.5): it creates the parent directories of its          *)
(* destination as needed and renames the source, with all it contains, to  *)
(* the destination.  A filesystem is the set of its files and directories  *)
(* other than "/", each a record [path, dir].                              *)

\* the directories above path p, "/" left out
Ancestors(p) == {Take(p, i - 1) : i \in {k \in 2..Len(p) : p[k] = "/"}}

FsExists(state, p) == \E n \in state : n.path = p

FsIsDir(state, p) == \E n \in state : n.path = p /\ n.dir

\* p is src or lies inside src
FsUnder(p, src) == p = src \/ StartsWith(p, src \o <<"/">>)

\* safe_mv src dst can perform its move: the source exists, the destination
\* is free and not inside the source, and no file stands where a parent
\* directory of the destination has to be
CanMove(state, src, dst) ==
    /\ FsExists(state, src)
    /\ ~FsExists(state, dst)
    /\ ~FsUnder(dst, src)
    /\ \A a \in Ancestors(dst) : FsExists(state, a) => FsIsDir(state, a)

\* the filesystem after safe_mv src dst has performed its move
safe_mv(state, src, dst) ==
    LET made  == {[path |-> a, dir |-> TRUE] : a \in {x \in Ancestors(dst) : ~FsExists(state, x)}}
        moved == {[path |-> dst \o Drop(n.path, Len(src)), dir |-> n.dir] :
                      n \in {m \in state : FsUnder(m.path, src)}}
    IN  {n \in state : ~FsUnder(n.path, src)} \cup made \cup moved

-----------------------------------------------------------------------------
(* SpecReverse: moves and renames are executed on a small filesystem, one  *)
(* after the other, each performing its move; build_undo_plan is called on *)
(* the executed operations and the operations of the undo plan are run in  *)
(* plan order.                                                             *)

\* the most operations executed before the undo
MaxReverseOps == 2

\* /a, /b, /t and /a/x
FsPaths == {PathA, PathB, PathT, PathA \o PathX}

\* the filesystems over FsPaths: a path names one file or directory, and what
\* lies above an existing path is a directory
FsStates ==
    { state \in SUBSET [path : FsPaths, dir : BOOLEAN] :
        /\ \A n, m \in state : n.path = m.path => n = m
        /\ \A n \in state : \A a \in Ancestors(n.path) : FsIsDir(state, a) }

InitReverse ==
    /\ rfs \in FsStates
    /\ rfsOrig = rfs
    /\ rvStep = 0
    /\ rvFailed = FALSE
    /\ executed_ops = <<>>
    /\ only_mv_rename \in BOOLEAN
    /\ undoPlan = EmptyPlan("NotYet")
    /\ undoSkipped = <<>>
    /\ upc = "args"
    /\ QuoteIdle /\ SandboxIdle /\ PlanIdle /\ IndexIdle /\ TabIdle /\ MediaIdle /\ NfoIdle /\ SshIdle /\ RenameIdle /\ JournalIdle

\* one more operation of the run: a move or rename that performs its move
ExecuteMove ==
    /\ upc = "args"
    /\ Len(executed_ops) < MaxReverseOps
    /\ \E kind \in {MOVE, RENAME}, src \in FsPaths, dst \in FsPaths :
          /\ CanMove(rfs, src, dst)
          /\ rfs' = safe_mv(rfs, src, dst)
          /\ executed_ops' = Append(executed_ops, Operation(kind, src, dst, <<>>, TRUE, <<>>))
    /\ UNCHANGED <<rfsOrig, rvStep, rvFailed, only_mv_rename, undoPlan, undoSkipped, upc>>
    /\ UNCHANGED <<qvars, sbvars, plvars, ixvars, tabvars, mgvars, nfvars, shvars, rnvars, jrvars>>

\* the next selected operation of the undo plan runs; the run ends with the
\* first operation that cannot perform its move
UndoStep ==
    /\ upc = "done"
    /\ ~rvFailed
    /\ rvStep < count_selected(undoPlan)
    /\ LET op == SelectedOps(undoPlan)[rvStep + 1] IN
          IF CanMove(rfs, op.src, op.dst)
          THEN /\ rfs' = safe_mv(rfs, op.src, op.dst)
               /\ rvStep' = rvStep + 1
               /\ UNCHANGED rvFailed
          ELSE /\ rvFailed' = TRUE
               /\ UNCHANGED <<rfs, rvStep>>
    /\ UNCHANGED rfsOrig
    /\ UNCHANGED <<qvars, sbvars, plvars, unvars, ixvars, tabvars, mgvars, nfvars, shvars, rnvars, jrvars>>

NextReverse == ExecuteMove \/ BuildUndoPlan \/ UndoStep

SpecReverse == InitReverse /\ [][NextReverse]_vars

\* C26: reversibility: after a sequence of moves and renames each of which
\* performed its move, every operation of the undo plan, run in plan order,
\* performs its move, and when they have all run the filesystem is exactly
\* the original one.
C26_UndoRestores ==
    upc = "done" =>
        /\ ~rvFailed
        /\ rvStep = count_selected(undoPlan) => rfs = rfsOrig

-----------------------------------------------------------------------------
(* jfo/ui/tabs/tab_rename.py and tab_create_dirs.py: the plans that the    *)
(* Rename tab and the Create-directories tab build, and RenameTab._execute.*)
(* One tab is at work at a time: _plan, _script and dry_run are the fields *)
(* of the tab that built the plan, and the title of the plan tells which.  *)
(* A GroupVM is [group, selected]; its proposed and warning fields are     *)
(* only shown in the group table.                                          *)

\* Settings.video_exts and Settings.sidecar_exts of the session
RenameVideoExts == {<<"v">>}
RenameSidecarExts == {<<"n", "f", "o">>}

\* directories and files of the index, each movie with its NFO file: a
\* movie A, a movie B in a directory inside A's, and two cuts X and Xa of a
\* movie in a directory next to A's
RenamePaths ==
    [m |-> <<"/", "m">>, A |-> <<"/", "m", "/", "A">>, X |-> <<"/", "m", "/", "X">>,
     Av |-> <<"/", "m", "/", "A", "/", "A", ".", "v">>, An |-> <<"/", "m", "/", "A", "/", "A", ".", "n", "f", "o">>,
     ABv |-> <<"/", "m", "/", "A", "/", "B", "/", "B", ".", "v">>, ABn |-> <<"/", "m", "/", "A", "/", "B", "/", "B", ".", "n", "f", "o">>,
     Xv |-> <<"/", "m", "/", "X", "/", "X", ".", "v">>, Xn |-> <<"/", "m", "/", "X", "/", "X", ".", "n", "f", "o">>,
     Xav |-> <<"/", "m", "/", "X", "/", "X", "a", ".", "v">>, Xan |-> <<"/", "m", "/", "X", "/", "X", "a", ".", "n", "f", "o">>]

RenameCatalog ==
    upsert_paths({}, <<RenamePaths.Av, RenamePaths.An, RenamePaths.ABv, RenamePaths.ABn,
                       RenamePaths.Xv, RenamePaths.Xn, RenamePaths.Xav, RenamePaths.Xan>>,
                 RenamePaths.m, 0)

\* what naming_template gives for the title, year and imdbid of a group
StemPool == {<<"x">>}

\* Settings.mass_confirm_threshold (200 unless configured)
mass_confirm_threshold == 5

\* str(exc) of the SandboxViolation that assert_path_allowed(path) raised
SandboxMessage(why, path) == Message("SandboxViolation", why, path, None, 0)

GroupVM(g, selected) == [group |-> g, selected |-> selected]

\* MediaGroup.all_files: the video and the sidecars, one entry per path
all_files(g) ==
    LET fs == <<g.video>> \o g.sidecars
        firstAt(i) == \A j \in 1..(i - 1) : fs[j] # fs[i]
        at == SelectSeq([i \in 1..Len(fs) |-> i], firstAt)
    IN  [k \in 1..Len(at) |-> MediaFile(fs[at[k]])]

\* PurePosixPath(p).parent / name
SiblingOf(p, name) ==
    LET names == PosixNames(p)
    IN  PurePosixStr(PosixRoot(p) \o JoinSlash(Take(names, Len(names) - 1)) \o <<"/">> \o name)

\* RenameTab._build_plan, the operation for the file f of a group
RenameFileOp(roots, f, old_stem, dir_path, new_stem) ==
    LET name == f.name
        nlow == LowerStr(name)
        rest == Drop(name, Len(old_stem))
        suffix_part ==
            IF /\ StartsWith(name, old_stem) /\ Len(name) > Len(old_stem)
               /\ rest[1] \in {".", "-"}
            THEN rest
            ELSE IF nlow \in FOLDER_LEVEL_NFO_NAMES /\ EndsWith(nlow, <<".", "n", "f", "o">>)
            THEN <<".", "n", "f", "o">>
            ELSE IF nlow \in FOLDER_LEVEL_SIDECAR_NAMES THEN <<"-">> \o nlow
            ELSE <<>>
        dst == PurePosixStr(dir_path \o <<"/">> \o new_stem \o suffix_part)
        src_ok == assert_path_allowed(roots, f.path)
        dst_ok == assert_path_allowed(roots, dst)
    IN  IF src_ok # "ok"
        THEN Operation(RENAME, f.path, f.path, <<>>, FALSE, <<SandboxMessage(src_ok, f.path)>>)
        ELSE IF suffix_part = <<>>
        THEN Operation(RENAME, f.path, f.path, <<>>, FALSE,
                       <<Message("Unrecognized sidecar name; skipped", "", None, None, 0)>>)
        ELSE IF dst_ok # "ok"
        THEN Operation(RENAME, f.path, dst, <<>>, FALSE, <<SandboxMessage(dst_ok, dst)>>)
        ELSE Operation(RENAME, f.path, dst, <<>>, TRUE, <<>>)

\* RenameTab._build_plan, the folder rename of a group: the operations it
\* appends to dir_ops
RenameFolderOps(roots, dir_path, old_stem, new_stem, dir_renames_done) ==
    LET names == PosixNames(dir_path)
        dir_low == LowerStr(IF names = <<>> THEN <<>> ELSE names[Len(names)])
        old_low == LowerStr(old_stem)
        new_dir == SiblingOf(dir_path, new_stem)
        a == assert_path_allowed(roots, dir_path)
        b == assert_path_allowed(roots, new_dir)
    IN  IF /\ \/ dir_low = old_low
              \/ StartsWith(old_low, dir_low)
              \/ StartsWith(dir_low, old_low)
           /\ dir_path \notin dir_renames_done
           /\ new_dir # dir_path
        THEN IF a # "ok"
             THEN <<Operation(RENAME, dir_path, new_dir, <<>>, FALSE, <<SandboxMessage(a, dir_path)>>)>>
             ELSE IF b # "ok"
             THEN <<Operation(RENAME, dir_path, new_dir, <<>>, FALSE, <<SandboxMessage(b, new_dir)>>)>>
             ELSE <<Operation(RENAME, dir_path, new_dir, <<>>, TRUE, <<>>)>>
        ELSE <<>>

\* RenameTab._build_plan, the loop over self._groups from the i-th on.
\* stems[i] is the new stem that the NFO file of the i-th group gives, None
\* when its title, year or imdbid is missing or invalid; a group without an
\* NFO file has the warning "Missing NFO".
RECURSIVE RenameLoop(_, _, _, _, _, _)
RenameLoop(groups, stems, roots, rename_folder, i, acc) ==
    IF i > Len(groups) THEN acc
    ELSE IF ~groups[i].selected \/ groups[i].group.nfo = None \/ stems[i] = None
    THEN RenameLoop(groups, stems, roots, rename_folder, i + 1, acc)
    ELSE LET g == groups[i].group
             old_stem == MediaFile(g.video).stem
             dir_path == MediaFile(g.video).dir
             fs == all_files(g)
             file_ops == [k \in 1..Len(fs) |->
                             RenameFileOp(roots, fs[k], old_stem, dir_path, stems[i])]
             folder_ops == IF rename_folder
                           THEN RenameFolderOps(roots, dir_path, old_stem, stems[i], acc.done)
                           ELSE <<>>
         IN  RenameLoop(groups, stems, roots, rename_folder, i + 1,
                        [ops     |-> acc.ops \o file_ops,
                         dir_ops |-> acc.dir_ops \o folder_ops,
                         done    |-> IF folder_ops # <<>> THEN acc.done \cup {dir_path}
                                     ELSE acc.done])

\* the Plan that RenameTab._build_plan assigns to self._plan: the directory
\* renames come after the file renames
rename_build_plan(groups, stems, roots, rename_folder) ==
    LET r == RenameLoop(groups, stems, roots, rename_folder, 1,
                        [ops |-> <<>>, dir_ops |-> <<>>, done |-> {}])
    IN  apply_collision_warnings(extend(EmptyPlan("Rename"), r.ops \o r.dir_ops))

\* str.lstrip("/")
RECURSIVE LStripSlash(_)
LStripSlash(s) == IF s # <<>> /\ Head(s) = "/" THEN LStripSlash(Tail(s)) ELSE s

\* the Plan that CreateDirsTab._build_plan assigns to self._plan
create_dirs_build_plan(entries, remote_root, roots) ==
    LET dst(rel) == PurePosixStr(remote_root \o <<"/">> \o LStripSlash(rel))
        ops == [i \in 1..Len(entries) |->
                   LET ok == assert_path_allowed(roots, dst(entries[i]))
                   IN  IF ok # "ok"
                       THEN Operation(MKDIR, None, dst(entries[i]), <<>>, TRUE,
                                      <<SandboxMessage(ok, dst(entries[i]))>>)
                       ELSE Operation(MKDIR, None, dst(entries[i]), <<>>, TRUE, <<>>)]
    IN  apply_collision_warnings(extend(EmptyPlan("Create directories"), ops))

-----------------------------------------------------------------------------
(* Specification SpecBuild: a session in the Rename tab and the            *)
(* Create-directories tab: groups are loaded from the index and selected,  *)
(* plans are built and the Rename plan is executed.                        *)

MaxRenameRuns == 1

RenameFolders == {RenamePaths.A, RenamePaths.X}
\* the lines of the input of the Create-directories tab: one line that climbs
\* out of the remote root, and two lines that name the same directory
CreateDirsEntries == {<<<<".", ".", "/", "a">>>>, <<<<"a">>, <<"/", "a">>>>}
CreateDirsRoots == {RenamePaths.m}

InitBuild ==
    /\ settings_allowed_roots \in RootsPool
    /\ dry_run \in BOOLEAN
    /\ _plan = NoPlan
    /\ _script = EmptyScript
    /\ connected = FALSE
    /\ workers = <<>>
    /\ journal = <<>>
    /\ _groups = <<>>
    /\ shown = {}
    /\ QuoteIdle /\ SandboxIdle /\ PlanIdle /\ UndoIdle /\ IndexIdle /\ MediaIdle /\ NfoIdle /\ SshIdle /\ ReverseIdle /\ JournalIdle

\* RenameTab._load_groups with the recursive box ticked and no root filter,
\* its thread _worker_load_groups and the callback _apply of that thread
LoadGroups ==
    /\ \E folder \in RenameFolders :
          LET paths == files_under_dir_recursive(RenameCatalog, folder,
                                                 RenameVideoExts \cup RenameSidecarExts)
              groups == group_media_files(paths, RenameVideoExts, RenameSidecarExts)
          IN  /\ assert_path_allowed(settings_allowed_roots, folder) = "ok"
              /\ paths # <<>>
              /\ _groups' = [k \in 1..Len(groups) |-> GroupVM(groups[k], Len(groups) = 1)]
    /\ UNCHANGED shown
    /\ UNCHANGED <<qvars, sbvars, plvars, unvars, ixvars, tabvars, mgvars, nfvars, shvars, rvvars, jrvars>>

\* a double click on a row of the group table: PlanTable._on_double_click
ToggleGroup ==
    /\ \E i \in 1..Len(_groups) : _groups' = [_groups EXCEPT ![i].selected = ~@]
    /\ UNCHANGED shown
    /\ UNCHANGED <<qvars, sbvars, plvars, unvars, ixvars, tabvars, mgvars, nfvars, shvars, rvvars, jrvars>>

\* RenameTab._build_plan in the mode "nfo"; stems is what the NFO files of
\* the groups give (every group of these sessions has an NFO file with a
\* title, a year and a valid imdbid), rename_folder the state of the checkbox
RenameBuildPlan ==
    /\ _groups # <<>>
    /\ connected
    /\ \E i \in 1..Len(_groups) : _groups[i].selected
    /\ \E stems \in [1..Len(_groups) -> StemPool], rename_folder \in BOOLEAN :
          LET built == rename_build_plan(_groups, stems, settings_allowed_roots, rename_folder)
          IN  /\ _plan' = built
              /\ _script' = _regen_script(built, settings_allowed_roots, dry_run, _script).script
    /\ UNCHANGED <<settings_allowed_roots, dry_run, connected, workers, journal>>
    /\ UNCHANGED <<_groups, shown>>
    /\ UNCHANGED <<qvars, sbvars, plvars, unvars, ixvars, mgvars, nfvars, shvars, rvvars, jrvars>>

\* CreateDirsTab._build_plan
CreateDirsBuildPlan ==
    /\ \E entries \in CreateDirsEntries, remote_root \in CreateDirsRoots :
          LET built == create_dirs_build_plan(entries, remote_root, settings_allowed_roots)
          IN  /\ _plan' = built
              /\ _script' = _regen_script(built, settings_allowed_roots, dry_run, _script).script
    /\ UNCHANGED <<settings_allowed_roots, dry_run, connected, workers, journal>>
    /\ UNCHANGED <<_groups, shown>>
    /\ UNCHANGED <<qvars, sbvars, plvars, unvars, ixvars, mgvars, nfvars, shvars, rvvars, jrvars>>

\* RenameTab._execute with a plan at hand; choice is the answer to the
\* dry-run dialog, confirmed the answer to the mass-confirm dialog.  shown
\* becomes the set of the dialogs that this call opened.
RenameExecute ==
    /\ _plan # NoPlan /\ _plan.title = "Rename"
    /\ connected
    /\ count_selected(_plan) # 0
    /\ Len(workers) < MaxRenameRuns
    /\ \E choice \in {"real", "test", "cancel"}, confirmed \in BOOLEAN :
          LET asked == dry_run
              real == asked /\ choice = "real"
              cancelled == asked /\ choice = "cancel"
              r == IF real
                   THEN _regen_script(_plan, settings_allowed_roots, FALSE, _script)
                   ELSE [script |-> _script, raised |-> FALSE]
              mass == ~cancelled /\ ~r.raised
                      /\ count_selected(_plan) >= mass_confirm_threshold
          IN  /\ dry_run' = IF real THEN FALSE ELSE dry_run
              /\ _script' = r.script
              /\ shown' = (IF asked THEN {"dry_run"} ELSE {})
                          \cup (IF mass THEN {"mass_confirm"} ELSE {})
              /\ workers' = IF cancelled \/ r.raised \/ (mass /\ ~confirmed)
                            THEN workers ELSE Append(workers, NewWorker)
    /\ UNCHANGED <<settings_allowed_roots, _plan, connected, journal>>
    /\ UNCHANGED _groups
    /\ UNCHANGED <<qvars, sbvars, plvars, unvars, ixvars, mgvars, nfvars, shvars, rvvars, jrvars>>

NextBuild ==
    \/ Connect
    \/ LoadGroups
    \/ ToggleGroup
    \/ RenameBuildPlan
    \/ CreateDirsBuildPlan
    \/ RenameExecute

SpecBuild == InitBuild /\ [][NextBuild]_vars

\* the sandbox of the session rejects the source or the destination of op
SandboxRejects(op) ==
    \E p \in {op.src, op.dst} :
        ~Falsy(p) /\ assert_path_allowed(settings_allowed_roots, p) # "ok"

\* C22: in every plan a tab builds, an operation whose source or destination
\* fails the sandbox check is left out or carries a non-empty warning and is
\* not selected: no built plan holds a selected operation with a path that
\* the sandbox rejects.
C22_RejectedNeverSelected ==
    \A i \in 1..Len(_plan.operations) :
        SandboxRejects(_plan.operations[i]) =>
            /\ ~_plan.operations[i].selected
            /\ _plan.operations[i].warning # <<>>

\* the plan carries the summary that apply_collision_warnings adds
HasCollisionWarning(p) ==
    \E i \in 1..Len(p.warnings) : \E n \in 1..Len(p.operations) :
        p.warnings[i] = CollisionSummary(n)

\* C25: a plan that contains destination collisions is never executed
\* without an acknowledgement by the user: whenever _execute starts the
\* script of a plan with a collision warning, a dialog was opened between
\* the click and the start (any dialog is taken for the acknowledgement).
C25_CollisionsAcknowledged ==
    [][ (Len(workers') > Len(workers) /\ HasCollisionWarning(_plan)) =>
            shown' # {} ]_vars

\* C27: in every plan built by the Rename tab no selected operation has a
\* source inside a directory that an earlier selected operation of the plan
\* renames, so that each source still exists at its turn when the operations
\* run in plan order, also for groups in nested directories.
C27_SourcesSurvive ==
    _plan.title = "Rename" =>
        \A i, j \in 1..Len(_plan.operations) :
            (i < j /\ _plan.operations[i].selected /\ _plan.operations[j].selected) =>
                ~StartsWith(_plan.operations[j].src, _plan.operations[i].src \o <<"/">>)

-----------------------------------------------------------------------------
(* jfo/core/history.py: ops_from_journal and parse_ops_from_script.  A     *)
(* journal record is [has_ops, ops, script]: has_ops tells whether the     *)
(* record has an "ops" key, ops is the list of the stored operation dicts  *)
(* under that key, and script is the script text.                          *)

\* the verb of a helper call and the kind parse_ops_from_script gives it
VerbKind(cmd) ==
    CASE cmd = <<"s", "a", "f", "e", "_", "m", "v">> -> MOVE
      [] cmd = <<"s", "a", "f", "e", "_", "l", "n">> -> LINK
      [] cmd = <<"s", "a", "f", "e", "_", "c", "p">> -> COPY
      [] cmd = <<"s", "a", "f", "e", "_", "m", "k", "d", "i", "r">> -> MKDIR
      [] OTHER -> "none"

\* parse_ops_from_script, the operations of one stripped line, parts being
\* shlex.split(line) or the exception it raised
ParseTokens(line, parts) ==
    IF line = <<>> \/ StartsWith(line, <<"#">>) THEN <<>>
    ELSE IF ~(StartsWith(line, <<"s", "a", "f", "e", "_">>)
              \/ StartsWith(line, <<"r", "u", "n", " ">>)) THEN <<>>
    ELSE IF parts = ShlexError THEN <<>>
    ELSE IF parts = <<>> THEN <<>>
    ELSE IF VerbKind(parts[1]) \in {MOVE, LINK, COPY} /\ Len(parts) >= 3
    THEN <<Operation(VerbKind(parts[1]), parts[2], parts[3], <<>>, TRUE, <<>>)>>
    ELSE IF VerbKind(parts[1]) = MKDIR /\ Len(parts) >= 2
    THEN <<Operation(MKDIR, None, parts[2], <<>>, TRUE, <<>>)>>
    ELSE <<>>

\* parse_ops_from_script, the operations of one line of script.splitlines()
ParseLine(raw_line) == ParseTokens(Strip(raw_line), shlex_split(Strip(raw_line)))

RECURSIVE ParseLines(_)
ParseLines(lines) ==
    IF lines = <<>> THEN <<>> ELSE ParseLine(Head(lines)) \o ParseLines(Tail(lines))

\* parse_ops_from_script(script)
parse_ops_from_script(script) == ParseLines(splitlines(script))

\* ops_from_journal, the loop over the items of record["ops"]
RECURSIVE OpsOfItems(_)
OpsOfItems(raw) ==
    IF raw = <<>> THEN <<>>
    ELSE LET item == Head(raw)
         IN  (IF item.kind \in OperationKind
              THEN <<Operation(item.kind, item.src, item.dst, item.detail, TRUE, item.warning)>>
              ELSE <<>>)
             \o OpsOfItems(Tail(raw))

\* ops_from_journal(record)
ops_from_journal(record) ==
    IF record.has_ops /\ record.ops # <<>> THEN OpsOfItems(record.ops)
    ELSE parse_ops_from_script(record.script)

-----------------------------------------------------------------------------
(* Specification SpecJournal: ops_from_journal on the records of a small   *)
(* journal.  The script of a record is written line by line: the helper    *)
(* calls as the generator writes them (verb and quoted arguments), and     *)
(* comments, other commands, indented calls and a line with an unclosed    *)
(* quote.                                                                  *)

MaxScriptLines == 2

\* what a line of a script is: a call of a command with arguments, written
\* as it is, indented, behind "# ", behind "run ", or cut in a quote
ScriptLine(form, cmd, args) == [form |-> form, cmd |-> cmd, args |-> args]

JournalArgs == {<<"/", "a">>, <<"/", "b", " ", "a">>, <<"/", "a", "'", "b">>}

ScriptLinePool ==
    { ScriptLine("call", <<"s", "a", "f", "e", "_", "m", "v">>, <<<<"/", "a">>, <<"/", "b", " ", "a">>>>),
      ScriptLine("call", <<"s", "a", "f", "e", "_", "m", "v">>, <<<<"/", "a", "'", "b">>>>),
      ScriptLine("call", <<"s", "a", "f", "e", "_", "m", "k", "d", "i", "r">>, <<<<"/", "b", " ", "a">>>>),
      ScriptLine("call", <<"s", "a", "f", "e", "_", "l", "n">>, <<<<"/", "a">>, <<"/", "a", "'", "b">>, <<"/", "a">>>>),
      ScriptLine("indented", <<"s", "a", "f", "e", "_", "c", "p">>, <<<<"/", "a", "'", "b">>, <<"/", "a">>>>),
      ScriptLine("call", <<"s", "a", "f", "e", "_", "m", "k", "d", "i", "r">>, <<>>),
      ScriptLine("call", <<"s", "a", "f", "e", "_", "r", "m">>, <<<<"/", "a">>, <<"/", "a">>>>),
      ScriptLine("call", <<"e", "c", "h", "o">>, <<<<"/", "a">>>>),
      ScriptLine("comment", <<"s", "a", "f", "e", "_", "m", "v">>, <<<<"/", "a">>, <<"/", "a">>>>),
      ScriptLine("run", <<"s", "a", "f", "e", "_", "m", "v">>, <<<<"/", "a">>, <<"/", "a">>>>),
      ScriptLine("cut", <<"s", "a", "f", "e", "_", "m", "v">>, <<<<"/", "a">>, <<"/", "a">>>>) }

\* the text of a line
LineText(l) ==
    LET call == l.cmd \o JoinQuoted(l.args)
    IN  CASE l.form = "call" -> call
          [] l.form = "indented" -> <<" ", " ">> \o call
          [] l.form = "comment" -> <<"#", " ">> \o call
          [] l.form = "run" -> <<"r", "u", "n", " ">> \o call
          [] l.form = "cut" -> Take(call, Len(call) - 1)

RECURSIVE ScriptText(_)
ScriptText(lines) ==
    IF lines = <<>> THEN <<>> ELSE LineText(Head(lines)) \o <<"LF">> \o ScriptText(Tail(lines))

\* a stored operation: ops_to_journal_dicts
JournalItem(kind, src, dst) ==
    [kind |-> kind, src |-> src, dst |-> dst, detail |-> <<>>, warning |-> <<>>]

\* record["ops"]: lists of stored operations (one of them with a kind that
\* is no OperationKind), and the empty list
JournalOpsPool ==
    { <<>>,
      <<JournalItem(RENAME, <<"/", "a">>, <<"/", "b", " ", "a">>)>>,
      <<JournalItem(MOVE, <<"/", "b", " ", "a">>, <<"/", "a">>), JournalItem(MKDIR, None, <<"/", "a">>)>>,
      <<JournalItem("rm", <<"/", "a">>, None), JournalItem(COPY, <<"/", "a">>, <<"/", "a", "'", "b">>)>> }

InitJournal ==
    /\ recLines \in SeqsUpTo(ScriptLinePool, MaxScriptLines)
    /\ \/ rec = [has_ops |-> FALSE, ops |-> <<>>, script |-> ScriptText(recLines)]
       \/ \E ops \in JournalOpsPool :
             rec = [has_ops |-> TRUE, ops |-> ops, script |-> ScriptText(recLines)]
    /\ jrOps = <<>>
    /\ jrpc = "record"
    /\ QuoteIdle /\ SandboxIdle /\ PlanIdle /\ UndoIdle /\ IndexIdle /\ TabIdle /\ MediaIdle /\ NfoIdle /\ SshIdle /\ ReverseIdle /\ RenameIdle

\* HistoryTab: executed_ops = ops_from_journal(rec)
OpsFromJournal ==
    /\ jrpc = "record"
    /\ jrOps' = ops_from_journal(rec)
    /\ jrpc' = "loaded"
    /\ UNCHANGED <<rec, recLines>>
    /\ UNCHANGED <<qvars, sbvars, plvars, unvars, ixvars, tabvars, mgvars, nfvars, shvars, rvvars, rnvars>>

NextJournal == OpsFromJournal

SpecJournal == InitJournal /\ [][NextJournal]_vars

\* the operation of a written line: one for a call of safe_mv, safe_ln,
\* safe_cp or safe_mkdir with enough arguments, indented or not, none for
\* every other line
OpOfLine(l) ==
    IF l.form \notin {"call", "indented"} THEN <<>>
    ELSE IF VerbKind(l.cmd) \in {MOVE, LINK, COPY} /\ Len(l.args) >= 2
    THEN <<Operation(VerbKind(l.cmd), l.args[1], l.args[2], <<>>, TRUE, <<>>)>>
    ELSE IF VerbKind(l.cmd) = MKDIR /\ Len(l.args) >= 1
    THEN <<Operation(MKDIR, None, l.args[1], <<>>, TRUE, <<>>)>>
    ELSE <<>>

RECURSIVE OpsOfLines(_)
OpsOfLines(lines) ==
    IF lines = <<>> THEN <<>> ELSE OpOfLine(Head(lines)) \o OpsOfLines(Tail(lines))

\* the operations of a stored list, in stored order and all selected
StoredOps(raw) ==
    LET valid == SelectSeq(raw, LAMBDA item : item.kind \in OperationKind)
    IN  [i \in 1..Len(valid) |->
            Operation(valid[i].kind, valid[i].src, valid[i].dst,
                      valid[i].detail, TRUE, valid[i].warning)]

\* C23: ops_from_journal returns the operations of the record's structured
\* ops list, in stored order and all selected, when the record has such a
\* list, and otherwise the operations parsed from the script text: one for
\* each safe_mv, safe_ln, safe_cp and safe_mkdir call with enough arguments,
\* in script order, and none for comments, other commands and lines that
\* cannot be tokenized.
C23_OpsFromJournal ==
    jrpc = "loaded" =>
        IF rec.has_ops THEN jrOps = StoredOps(rec.ops)
        ELSE jrOps = OpsOfLines(recLines)


====
